---- MODULE Spec2Model ----
(***************************************************************************)
(* Layer-action command layer (js/actions/layers, here models/menuitem.js  *)
(* lines 411-1727) and the text-tool sub-protocol (actions/tool/type.js)   *)
(* of spaces-design, as a state machine.                                   *)
(*                                                                         *)
(* JavaScript values that may be undefined/null/false/true are kept as the *)
(* strings "undefined", "null", "false", "true" so that the falsy values   *)
(* stay distinguishable.                                                   *)
(***************************************************************************)
EXTENDS Integers, Sequences, FiniteSets, TLC

(* ------------------------------------------------------------------ *)
(* Bounds of the model                                                 *)
(* ------------------------------------------------------------------ *)

\* number of fresh layer IDs the host may hand out (IDs 6, 7, ...)
MaxNew == 2

\* number of direct command calls in one behaviour
MaxCalls == 1

\* number of host events / tool switches in one behaviour of the text-tool model
MaxEvents == 3

\* number of layer references of one batched property fetch
MaxRefs == 2

\* number of events the host emits to the listeners of beforeStartup
MaxHostEvents == 1

\* number of tool calls and text-tool events of the two-session run
MaxSessionEvents == 5

\* number of select / groupSelected calls in one behaviour
MaxLayerCalls == 2

(* ------------------------------------------------------------------ *)
(* Program constants                                                   *)
(* ------------------------------------------------------------------ *)

PS_MAX_NEST_DEPTH == 9

(* ------------------------------------------------------------------ *)
(* Generic helpers                                                     *)
(* ------------------------------------------------------------------ *)

Range(s) == {s[i] : i \in 1..Len(s)}

Bool(b) == IF b THEN "true" ELSE "false"

\* JavaScript truthiness of the encoded values
Truthy(v) == v = "true"

NewLayerIDs == 6..(5 + MaxNew)

\* contiguous runs of fresh IDs, in ascending order
NewLayerSpecs ==
    {[i \in 1..(b - a + 1) |-> a + i - 1] : a \in NewLayerIDs, b \in NewLayerIDs} \ {<<>>}

(* ------------------------------------------------------------------ *)
(* Document / layer model (js/models/document, layerstructure, layer)  *)
(* ------------------------------------------------------------------ *)

BoundsVals ==
    { [present |-> FALSE, area |-> 0],
      [present |-> TRUE,  area |-> 0],
      [present |-> TRUE,  area |-> 4] }

Plain(id) ==
    [id |-> id, kind |-> "layer", isArtboard |-> FALSE, isBackground |-> FALSE,
     bounds |-> [present |-> TRUE, area |-> 4], selected |-> FALSE]

ArtboardLayer(id) ==
    [id |-> id, kind |-> "groupStart", isArtboard |-> TRUE, isBackground |-> FALSE,
     bounds |-> [present |-> TRUE, area |-> 4], selected |-> FALSE]

GroupStart(id) ==
    [id |-> id, kind |-> "groupStart", isArtboard |-> FALSE, isBackground |-> FALSE,
     bounds |-> [present |-> FALSE, area |-> 0], selected |-> FALSE]

GroupEnd(id) ==
    [id |-> id, kind |-> "groupEnd", isArtboard |-> FALSE, isBackground |-> FALSE,
     bounds |-> [present |-> FALSE, area |-> 0], selected |-> FALSE]

\* the layer whose attributes decide the replacement heuristic
Placeholders(id) ==
    { [id |-> id, kind |-> "layer", isArtboard |-> FALSE, isBackground |-> bg,
       bounds |-> bd, selected |-> s] :
        bg \in BOOLEAN, bd \in BoundsVals, s \in BOOLEAN }

NoDocument == [id |-> 0, layers |-> <<>>, unsupported |-> FALSE]

Doc(layers) == [id |-> 1, layers |-> layers, unsupported |-> FALSE]

\* documents the application store may hold when a command is called
InitDocuments ==
         { Doc(<<p>>) : p \in Placeholders(2) \cup Placeholders(5) }
    \cup { Doc(<<ArtboardLayer(1), p, GroupEnd(3)>>) : p \in Placeholders(2) \cup Placeholders(4) }
    \cup { Doc(<<p, Plain(1), Plain(3)>>) : p \in Placeholders(2) }
    \cup { Doc(<<p, Plain(1)>>) : p \in Placeholders(2) }

\* document.layers.hasArtboard
hasArtboard(doc) == \E i \in 1..Len(doc.layers) : doc.layers[i].isArtboard

\* document.hasBackgroundLayer
hasBackgroundLayer(doc) == \E i \in 1..Len(doc.layers) : doc.layers[i].isBackground

\* document.layers.byID(id): position of the layer in layers.all, 0 when undefined
byID(doc, id) ==
    IF \E i \in 1..Len(doc.layers) : doc.layers[i].id = id
    THEN CHOOSE i \in 1..Len(doc.layers) : doc.layers[i].id = id
    ELSE 0

LayerIDsOf(doc) == {doc.layers[i].id : i \in 1..Len(doc.layers)}

(* ------------------------------------------------------------------ *)
(* State                                                               *)
(* ------------------------------------------------------------------ *)

VARIABLES
    document,                      \* application store: the current document, or NoDocument
    hostLayerIDs,                  \* layer IDs of the document inside the host
    queue,                         \* invoked commands in scheduler order; the head is running
    dispatched,                    \* events dispatched to the stores, oldest first
    transfers,                     \* this.transfer(...) calls made by the text-tool commands
    logged,                        \* log.warn / log.error / throw records
    results,                       \* settled command promises, oldest first
    _typeChangedHandler,           \* type.js module variables: TRUE when a handler is stored
    _layerCreatedHandler,
    _layerDeletedHandler,
    _toolModalStateChangedHandler,
    listeners,                     \* descriptor listeners registered by the text tool, per event
    _layersReplaced,
    _layerDeleted,                 \* 0 encodes null
    firstLaunch,
    toolOp,                        \* host call of tool select / deselect that is in flight
    resetTypeToolRequests,         \* resetTypeTool requests sent to the host
    events,                        \* host events and tool switches so far
    deletedInSession,              \* history: deleteTextLayer has arrived since the last select
    floating,                      \* host calls in flight that no running command waits for
    hostSelected,                  \* IDs of the layers selected inside the host
    timers,                        \* dispatches scheduled for a later turn of the event loop
    fetchRefs,                     \* _getLayersByRef: the layer references (layer IDs)
    fetchHost,                     \* what the host holds for them
    fetchRequired,                 \* layerPropertiesPromise: state and value
    fetchOptional,                 \* optionalPropertiesPromise: state and value
    fetchResult,                   \* the joined promise: state and value
    rawMenu,                       \* the menu description handed to MenuItem.fromDescriptor
    __PG_DEBUG__,                  \* the build flag
    processed,                     \* what fromDescriptor gave: outcome, menu, shortcut table
    updated                        \* what updateSubmenuProps gave: receiver, arguments, outcome, menu

docVars  == <<document, hostLayerIDs, queue, dispatched, transfers, logged, results>>
toolVars == <<_typeChangedHandler, _layerCreatedHandler, _layerDeletedHandler,
              _toolModalStateChangedHandler, listeners, _layersReplaced, _layerDeleted,
              firstLaunch, toolOp, resetTypeToolRequests, events, deletedInSession>>

layerVars == <<floating, hostSelected, timers>>
fetchVars == <<fetchRefs, fetchHost, fetchRequired, fetchOptional, fetchResult>>
menuVars  == <<rawMenu, __PG_DEBUG__, processed, updated>>

ToolEvents == {"updateTextProperties", "createTextLayer", "deleteTextLayer", "toolModalStateChanged"}

(* ------------------------------------------------------------------ *)
(* addLayers: the replacement heuristic                                *)
(* ------------------------------------------------------------------ *)

\* the size test without the test on the number of layers being added
singleLayerOnEmptyCanvas_anyCount(doc, layerSpec) ==
    IF hasArtboard(doc) THEN Len(doc.layers) = 3 ELSE Len(doc.layers) = 1

\* menuitem.js 576-577: first value of replace when no truthy flag was passed
singleLayerOnEmptyCanvas(doc, layerSpec) ==
    /\ Len(layerSpec) = 1
    /\ IF hasArtboard(doc) THEN Len(doc.layers) = 3 ELSE Len(doc.layers) = 1

\* menuitem.js 582: the layer that would be replaced, 0 when byID(2) is undefined
firstLayer(doc) == IF hasArtboard(doc) THEN byID(doc, 2) ELSE 1

\* the placeholder test without the test on first.selected
replaceIfPlaceholder_unselected(doc) ==
    LET i == firstLayer(doc) IN
    IF i = 0 THEN "undefined"
    ELSE LET first == doc.layers[i] IN
         IF first.isBackground THEN "false"
         ELSE IF ~first.bounds.present THEN "null"
         ELSE IF first.bounds.area # 0 THEN "false"
         ELSE Bool(hasArtboard(doc))

\* menuitem.js 583-584: first && !first.isBackground && first.bounds &&
\*                    !first.bounds.area && (hasArtboard && first.selected)
replaceIfPlaceholder(doc) ==
    LET i == firstLayer(doc) IN
    IF i = 0 THEN "undefined"
    ELSE LET first == doc.layers[i] IN
         IF first.isBackground THEN "false"
         ELSE IF ~first.bounds.present THEN "null"
         ELSE IF first.bounds.area # 0 THEN "false"
         ELSE IF ~hasArtboard(doc) THEN "false"
         ELSE Bool(first.selected)

\* menuitem.js 575-586: the value of replace that reaches the payload
addLayersReplace(doc, layerSpec, replaceArg) ==
    IF Truthy(replaceArg) THEN replaceArg
    ELSE IF ~singleLayerOnEmptyCanvas(doc, layerSpec) THEN "false"
    ELSE replaceIfPlaceholder(doc)

\* menuitem.js 570-572
addLayersSelected(selectedArg) == IF selectedArg = "undefined" THEN "true" ELSE selectedArg

\* menuitem.js 597-607: the fulfilment callback dispatches and returns nothing,
\* so the promise handed to the caller resolves with undefined
addLayersResolvedValue(payload) == "undefined"

(* ------------------------------------------------------------------ *)
(* Document store: effect of the dispatched events                     *)
(* ------------------------------------------------------------------ *)

NewLayer(id, sel) ==
    [id |-> id, kind |-> "layer", isArtboard |-> FALSE, isBackground |-> FALSE,
     bounds |-> [present |-> TRUE, area |-> 4], selected |-> sel]

Deselected(layers) == [i \in 1..Len(layers) |-> [layers[i] EXCEPT !.selected = FALSE]]

RemoveAt(layers, i) == [j \in 1..(Len(layers) - 1) |-> IF j < i THEN layers[j] ELSE layers[j + 1]]

\* the layer an ADD_LAYERS with replace gives up: the artboard's layer 2, else
\* the background layer, else the first layer
replacedLayer(doc) ==
    IF hasArtboard(doc) THEN byID(doc, 2)
    ELSE IF hasBackgroundLayer(doc)
         THEN CHOOSE i \in 1..Len(doc.layers) : doc.layers[i].isBackground
         ELSE IF Len(doc.layers) > 0 THEN 1 ELSE 0

\* ADD_LAYERS: the new layers enter the document, selected when the payload
\* says so, in place of the replaced layer when replace is truthy
applyAddLayers(doc, layerIDs, selected, replace) ==
    LET fresh == SelectSeq(layerIDs, LAMBDA id : id \notin LayerIDsOf(doc))
        kept  == IF Truthy(replace) /\ replacedLayer(doc) # 0
                 THEN RemoveAt(doc.layers, replacedLayer(doc))
                 ELSE doc.layers
        old   == IF Truthy(selected) THEN Deselected(kept) ELSE kept
    IN  [doc EXCEPT !.layers =
            [i \in 1..Len(fresh) |-> NewLayer(fresh[i], Truthy(selected))] \o old]

\* DELETE_LAYERS
applyDeleteLayers(doc, layerIDs) ==
    [doc EXCEPT !.layers = SelectSeq(doc.layers, LAMBDA l : l.id \notin Range(layerIDs))]

\* full resync (documents.updateDocument): the local layers become the host's
applyUpdateDocument(doc, hostIDs) ==
    LET kept    == SelectSeq(doc.layers, LAMBDA l : l.id \in hostIDs)
        missing == hostIDs \ LayerIDsOf(doc)
        order   == CHOOSE q \in [1..Cardinality(missing) -> missing] :
                       \A i, j \in 1..Cardinality(missing) : i < j => q[i] < q[j]
    IN  [doc EXCEPT !.layers = [i \in 1..Cardinality(missing) |-> NewLayer(order[i], FALSE)] \o kept]

(* ------------------------------------------------------------------ *)
(* Commands                                                            *)
(* ------------------------------------------------------------------ *)

\* a command invocation: its arguments, the values its closure holds, how
\* many of its host calls are in flight, and how many events had been
\* dispatched when it was invoked
Command(kind, origin, doc, layerSpec, selected, replaceArg, layersReplaced) ==
    [kind |-> kind, origin |-> origin, document |-> doc, layerSpec |-> layerSpec,
     selected |-> selected, replaceArg |-> replaceArg, replace |-> "undefined",
     layersReplaced |-> layersReplaced,
     stage |-> "queued", inflight |-> 0, refs |-> <<>>,
     dispatchedBefore |-> Len(dispatched)]

Event(type, documentID, layerIDs, selected, replace, cmd) ==
    [type |-> type, documentID |-> documentID, layerIDs |-> layerIDs,
     selected |-> selected, replace |-> replace, command |-> cmd]

Result(cmd, outcome, value) == [command |-> cmd, outcome |-> outcome, value |-> value]

Tail1(q) == SubSeq(q, 2, Len(q))

\* addLayers returning a promise that waits for requests it never sent
addLayersCommand_noRequest(cmd) ==
    [cmd EXCEPT !.selected = addLayersSelected(cmd.selected),
                !.replace  = addLayersReplace(cmd.document, cmd.layerSpec, cmd.replaceArg),
                !.stage    = "pending",
                !.inflight = 0]

\* menuitem.js 565-595: the synchronous part of addLayers, up to the two batched
\* requests of _getLayersByRef
addLayersCommand(cmd) ==
    [cmd EXCEPT !.selected = addLayersSelected(cmd.selected),
                !.replace  = addLayersReplace(cmd.document, cmd.layerSpec, cmd.replaceArg),
                !.stage    = "fetching",
                !.inflight = 2]

\* menuitem.js 598-604
addLayersPayload(cmd) ==
    Event("ADD_LAYERS", cmd.document.id, cmd.layerSpec, cmd.selected, cmd.replace, cmd)

\* the index handed to the host without the background adjustment
hostIndex_unadjusted(doc, idx) == idx

\* menuitem.js 679: adjust the index based on the existence of a background layer
hostIndex(doc, idx) == IF hasBackgroundLayer(doc) THEN idx - 1 ELSE idx

\* menuitem.js 674-687: the references of resetLayersByIndex, then _getLayersByRef
resetLayersByIndexCommand(cmd) ==
    [cmd EXCEPT !.refs = [i \in 1..Len(cmd.layerSpec) |-> hostIndex(cmd.document, cmd.layerSpec[i])],
                !.stage = "fetching",
                !.inflight = 2]

\* menuitem.js 690-694
resetLayersByIndexPayload(cmd) ==
    Event("RESET_LAYERS_BY_INDEX", cmd.document.id, <<>>, "undefined", "undefined", cmd)

\* doc.numberOfLayers of the host's document descriptor: the host does not
\* count the background layer
numberOfLayers(doc) == Len(doc.layers) - (IF hasBackgroundLayer(doc) THEN 1 ELSE 0)

startIndex_inverted(doc) == IF hasBackgroundLayer(doc) THEN 1 ELSE 0

\* menuitem.js 1125: startIndex = (doc.hasBackgroundLayer ? 0 : 1)
startIndex(doc) == IF hasBackgroundLayer(doc) THEN 0 ELSE 1

\* menuitem.js 1124-1131: _.range(layerCount, startIndex - 1, -1), the host
\* indexes of all layers from the top of the document to the bottom
_getLayerIDsForDocument(doc) ==
    [p \in 1..(numberOfLayers(doc) - startIndex(doc) + 1) |-> numberOfLayers(doc) - p + 1]

\* the layer index a host index stands for: layer indexes count the layers
\* from the bottom of the document, starting at 1; 0 when the host has no
\* such index
layerIndexOf(doc, index) ==
    LET all == _getLayerIDsForDocument(doc)
    IN  IF \E p \in 1..Len(all) : all[p] = index
        THEN Len(all) - (CHOOSE p \in 1..Len(all) : all[p] = index) + 1
        ELSE 0

\* menuitem.js 617-625
resetLayersCommand(cmd) == [cmd EXCEPT !.stage = "fetching", !.inflight = 2]

\* menuitem.js 629-640
resetLayersPayload(cmd) ==
    Event("RESET_LAYERS", cmd.document.id, cmd.layerSpec, "undefined", "undefined", cmd)

handleDeletedLayerTarget_noResync(doc, layerID, layersReplaced) ==
    IF doc.id = 0 THEN "throw"
    ELSE IF byID(doc, layerID) = 0 THEN "updateDocument"
    ELSE "removeLayers"

\* type.js 263-284: the body of handleDeletedLayer, run against the current document
handleDeletedLayerTarget(doc, layerID, layersReplaced) ==
    IF doc.id = 0 THEN "throw"
    ELSE IF Truthy(layersReplaced) THEN "updateDocument"
    ELSE IF byID(doc, layerID) = 0 THEN "updateDocument"
    ELSE "removeLayers"

Transfer(from, to, layerID) == [from |-> from, to |-> to, layerID |-> layerID]

SelectedIDs(doc) ==
    LET sel == SelectSeq(doc.layers, LAMBDA l : l.selected)
    IN  [i \in 1..Len(sel) |-> sel[i].id]

(* ------------------------------------------------------------------ *)
(* Actions: direct command calls                                       *)
(* ------------------------------------------------------------------ *)

\* a caller invokes layers.addLayers(document, layerSpec, selected, replace)
\* with the current document and IDs the host has just created (the host
\* never hands out an ID twice)
AddLayersCall(layerSpec, selectedArg, replaceArg) ==
    /\ document.id # 0
    /\ queue = <<>>
    /\ Len(results) < MaxCalls
    /\ Range(layerSpec) \cap (LayerIDsOf(document) \cup hostLayerIDs) = {}
    /\ queue' = <<Command("addLayers", "call", document, layerSpec, selectedArg,
                          replaceArg, "undefined")>>
    /\ hostLayerIDs' = hostLayerIDs \cup Range(layerSpec)
    /\ UNCHANGED <<document, dispatched, transfers, logged, results>>
    /\ UNCHANGED toolVars
    /\ UNCHANGED layerVars
    /\ UNCHANGED <<fetchVars, menuVars>>

\* layer indexes a caller may pass: one index, or two adjacent ones
LayerIndexLists(doc) ==
         { <<i>> : i \in 1..Len(doc.layers) }
    \cup { <<i, i + 1>> : i \in 1..(Len(doc.layers) - 1) }

\* a caller invokes layers.resetLayersByIndex(document, layerIndexes)
ResetLayersByIndexCall(layerIndexes) ==
    /\ document.id # 0
    /\ queue = <<>>
    /\ Len(results) < MaxCalls
    /\ queue' = <<Command("resetLayersByIndex", "call", document, layerIndexes, "undefined",
                          "undefined", "undefined")>>
    /\ UNCHANGED <<document, hostLayerIDs, dispatched, transfers, logged, results>>
    /\ UNCHANGED toolVars
    /\ UNCHANGED layerVars
    /\ UNCHANGED <<fetchVars, menuVars>>

(* ------------------------------------------------------------------ *)
(* Actions: the scheduler starts the command at the head of the queue  *)
(* ------------------------------------------------------------------ *)

StartResetLayersByIndex ==
    /\ queue # <<>>
    /\ queue[1].stage = "queued"
    /\ queue[1].kind = "resetLayersByIndex"
    /\ queue' = <<resetLayersByIndexCommand(queue[1])>> \o Tail1(queue)
    /\ UNCHANGED <<document, hostLayerIDs, dispatched, transfers, logged, results>>
    /\ UNCHANGED toolVars
    /\ UNCHANGED layerVars
    /\ UNCHANGED <<fetchVars, menuVars>>


StartAddLayers ==
    /\ queue # <<>>
    /\ queue[1].stage = "queued"
    /\ queue[1].kind = "addLayers"
    /\ queue' = <<addLayersCommand(queue[1])>> \o Tail1(queue)
    /\ UNCHANGED <<document, hostLayerIDs, dispatched, transfers, logged, results>>
    /\ UNCHANGED toolVars
    /\ UNCHANGED layerVars
    /\ UNCHANGED <<fetchVars, menuVars>>

StartResetLayers ==
    /\ queue # <<>>
    /\ queue[1].stage = "queued"
    /\ queue[1].kind = "resetLayers"
    /\ queue' = <<resetLayersCommand(queue[1])>> \o Tail1(queue)
    /\ UNCHANGED <<document, hostLayerIDs, dispatched, transfers, logged, results>>
    /\ UNCHANGED toolVars
    /\ UNCHANGED layerVars
    /\ UNCHANGED <<fetchVars, menuVars>>

\* menuitem.js 727-739: the RESET_BOUNDS payload, one entry per layer
resetBoundsPayload(cmd) ==
    Event("RESET_BOUNDS", cmd.document.id, cmd.layerSpec, "undefined", "undefined", cmd)

\* menuitem.js 705-742: the synchronous part of resetBounds. A layer the
\* document does not hold is undefined in the list, and reading its isArtboard
\* throws before any request is made
StartResetBounds ==
    /\ queue # <<>>
    /\ queue[1].stage = "queued"
    /\ queue[1].kind = "resetBounds"
    /\ IF \E k \in 1..Len(queue[1].layerSpec) : byID(queue[1].document, queue[1].layerSpec[k]) = 0
       THEN /\ queue' = Tail1(queue)
            /\ results' = Append(results, Result(queue[1], "rejected", "TypeError"))
       ELSE /\ queue' = <<[queue[1] EXCEPT !.stage = "fetching", !.inflight = 1]>> \o Tail1(queue)
            /\ UNCHANGED results
    /\ UNCHANGED <<document, hostLayerIDs, dispatched, transfers, logged>>
    /\ UNCHANGED <<toolVars, layerVars, fetchVars, menuVars>>

removedLayers_none(doc, layerID) == <<>>

\* type.js 274-282: the layer of the event, looked up in the current document
\* and handed to layers.removeLayers
removedLayers(doc, layerID) == IF byID(doc, layerID) # 0 THEN <<layerID>> ELSE <<>>

\* a caller invokes tool.type.handleDeletedLayer(event, layersReplaced)
HandleDeletedLayerCall(layerID, layersReplaced) ==
    /\ queue = <<>>
    /\ Len(results) < MaxCalls
    /\ queue' = <<Command("handleDeletedLayer", "call", document, <<layerID>>,
                          "undefined", "undefined", layersReplaced)>>
    /\ UNCHANGED <<document, hostLayerIDs, dispatched, transfers, logged, results>>
    /\ UNCHANGED <<toolVars, layerVars, fetchVars, menuVars>>

\* type.js 263-284
StartHandleDeletedLayer ==
    /\ queue # <<>>
    /\ queue[1].stage = "queued"
    /\ queue[1].kind = "handleDeletedLayer"
    /\ LET cmd     == queue[1]
           layerID == cmd.layerSpec[1]
           target  == handleDeletedLayerTarget(document, layerID, cmd.layersReplaced)
       IN  CASE target = "throw" ->
                  /\ logged' = logged \cup {<<"throw", "handleDeletedLayer">>}
                  /\ results' = Append(results, Result(cmd, "rejected", "undefined"))
                  /\ queue' = Tail1(queue)
                  /\ UNCHANGED <<document, dispatched, transfers>>
             [] target = "updateDocument" ->
                  /\ logged' = IF Truthy(cmd.layersReplaced) THEN logged
                               ELSE logged \cup {<<"warn", "handleDeletedLayer">>}
                  /\ transfers' = Append(transfers, Transfer("handleDeletedLayer", "updateDocument", layerID))
                  /\ queue' = <<[cmd EXCEPT !.kind = "updateDocument", !.stage = "fetching",
                                            !.inflight = 1]>> \o Tail1(queue)
                  /\ UNCHANGED <<document, dispatched, results>>
             [] target = "removeLayers" ->
                  \* layers.removeLayers(document, layer, true): the layer leaves the model
                  /\ transfers' = Append(transfers, Transfer("handleDeletedLayer", "removeLayers", layerID))
                  /\ dispatched' = Append(dispatched,
                                          Event("DELETE_LAYERS", document.id,
                                                removedLayers(document, layerID),
                                                "undefined", "undefined", cmd))
                  /\ document' = applyDeleteLayers(document, removedLayers(document, layerID))
                  /\ results' = Append(results, Result(cmd, "resolved", "undefined"))
                  /\ queue' = Tail1(queue)
                  /\ UNCHANGED logged
    /\ UNCHANGED hostLayerIDs
    /\ UNCHANGED toolVars
    /\ UNCHANGED layerVars
    /\ UNCHANGED <<fetchVars, menuVars>>

\* type.js 298-307
StartHandleTypeModalStateCanceled ==
    /\ queue # <<>>
    /\ queue[1].stage = "queued"
    /\ queue[1].kind = "handleTypeModalStateCanceled"
    /\ LET cmd == queue[1] IN
       IF document.id = 0
       THEN /\ logged' = logged \cup {<<"throw", "handleTypeModalStateCanceled">>}
            /\ results' = Append(results, Result(cmd, "rejected", "undefined"))
            /\ queue' = Tail1(queue)
            /\ UNCHANGED transfers
       ELSE /\ transfers' = Append(transfers, Transfer("handleTypeModalStateCanceled", "resetLayers", 0))
            /\ queue' = <<resetLayersCommand([cmd EXCEPT !.kind = "resetLayers",
                                                          !.document = document,
                                                          !.layerSpec = SelectedIDs(document)])>>
                        \o Tail1(queue)
            /\ UNCHANGED <<logged, results>>
    /\ UNCHANGED <<document, hostLayerIDs, dispatched>>
    /\ UNCHANGED toolVars
    /\ UNCHANGED layerVars
    /\ UNCHANGED <<fetchVars, menuVars>>

(* ------------------------------------------------------------------ *)
(* Actions: the host answers a request of the running command          *)
(* ------------------------------------------------------------------ *)

\* the host answers one request; on the last answer the fulfilment callback runs
HostResolve ==
    /\ queue # <<>>
    /\ queue[1].stage = "fetching"
    /\ LET cmd == queue[1] IN
       IF cmd.inflight > 1
       THEN /\ queue' = <<[cmd EXCEPT !.inflight = @ - 1]>> \o Tail1(queue)
            /\ UNCHANGED <<document, dispatched, results, _layersReplaced>>
       ELSE /\ queue' = Tail1(queue)
            /\ CASE cmd.kind = "addLayers" ->
                      \* menuitem.js 597-607, then type.js 142-143 for the text tool's add
                      /\ dispatched' = Append(dispatched, addLayersPayload(cmd))
                      /\ document' = IF document.id = cmd.document.id
                                     THEN applyAddLayers(document, cmd.layerSpec, cmd.selected, cmd.replace)
                                     ELSE document
                      /\ results' = Append(results,
                                           Result(cmd, "resolved", addLayersResolvedValue(addLayersPayload(cmd))))
                      /\ _layersReplaced' = IF cmd.origin = "createTextLayer"
                                            THEN addLayersResolvedValue(addLayersPayload(cmd))
                                            ELSE _layersReplaced
                 [] cmd.kind = "resetLayers" ->
                      \* menuitem.js 627-641
                      /\ dispatched' = Append(dispatched, resetLayersPayload(cmd))
                      /\ results' = Append(results, Result(cmd, "resolved", "undefined"))
                      /\ UNCHANGED <<document, _layersReplaced>>
                 [] cmd.kind = "resetLayersByIndex" ->
                      \* menuitem.js 689-695
                      /\ dispatched' = Append(dispatched, resetLayersByIndexPayload(cmd))
                      /\ results' = Append(results, Result(cmd, "resolved", "undefined"))
                      /\ UNCHANGED <<document, _layersReplaced>>
                 [] cmd.kind = "resetBounds" ->
                      \* menuitem.js 724-741
                      /\ dispatched' = Append(dispatched, resetBoundsPayload(cmd))
                      /\ results' = Append(results, Result(cmd, "resolved", "undefined"))
                      /\ UNCHANGED <<document, _layersReplaced>>
                 [] cmd.kind = "updateDocument" ->
                      /\ dispatched' = Append(dispatched,
                                              Event("DOCUMENT_UPDATED", document.id, <<>>,
                                                    "undefined", "undefined", cmd))
                      /\ document' = applyUpdateDocument(document, hostLayerIDs)
                      /\ results' = Append(results, Result(cmd, "resolved", "undefined"))
                      /\ UNCHANGED _layersReplaced
    /\ UNCHANGED <<hostLayerIDs, transfers, logged>>
    /\ UNCHANGED <<_typeChangedHandler, _layerCreatedHandler, _layerDeletedHandler,
                   _toolModalStateChangedHandler, listeners, _layerDeleted,
                   firstLaunch, toolOp, resetTypeToolRequests, events>>
    /\ UNCHANGED layerVars
    /\ UNCHANGED <<fetchVars, menuVars>>
    /\ UNCHANGED deletedInSession

\* the host rejects a request: the command's promise rejects, nothing is dispatched
HostReject ==
    /\ queue # <<>>
    /\ queue[1].stage = "fetching"
    /\ queue' = Tail1(queue)
    /\ results' = Append(results, Result(queue[1], "rejected", "undefined"))
    /\ UNCHANGED <<document, hostLayerIDs, dispatched, transfers, logged>>
    /\ UNCHANGED toolVars
    /\ UNCHANGED layerVars
    /\ UNCHANGED <<fetchVars, menuVars>>

(* ------------------------------------------------------------------ *)
(* Actions: text tool                                                  *)
(* ------------------------------------------------------------------ *)

HandlerSet(e) ==
    CASE e = "updateTextProperties"  -> _typeChangedHandler
      [] e = "createTextLayer"       -> _layerCreatedHandler
      [] e = "deleteTextLayer"       -> _layerDeletedHandler
      [] e = "toolModalStateChanged" -> _toolModalStateChangedHandler

removeListener_never(ls, e) == ls

\* descriptor.removeListener(e, handler): a null or unknown handler removes nothing
removeListener(ls, e) ==
    IF HandlerSet(e) /\ ls[e] > 0 THEN [ls EXCEPT ![e] = @ - 1] ELSE ls

\* type.js 104-181: the synchronous part of select
ToolSelectWithin(limit) ==
    /\ events < limit
    /\ toolOp = "idle"
    /\ listeners' = [e \in ToolEvents |-> removeListener(listeners, e)[e] + 1]
    /\ _typeChangedHandler' = TRUE
    /\ _layerCreatedHandler' = TRUE
    /\ _layerDeletedHandler' = TRUE
    /\ _toolModalStateChangedHandler' = TRUE
    /\ toolOp' = "setSuppressTargetPaths"
    /\ events' = events + 1
    /\ UNCHANGED <<_layersReplaced, _layerDeleted, firstLaunch, resetTypeToolRequests>>
    /\ UNCHANGED docVars
    /\ UNCHANGED layerVars
    /\ UNCHANGED <<fetchVars, menuVars>>
    /\ deletedInSession' = FALSE

ToolSelect == ToolSelectWithin(MaxEvents)

\* type.js 203-215
ToolDeselectWithin(limit) ==
    /\ events < limit
    /\ toolOp = "idle"
    /\ listeners' = [e \in ToolEvents |-> removeListener(listeners, e)[e]]
    /\ _typeChangedHandler' = FALSE
    /\ _layerCreatedHandler' = FALSE
    /\ _layerDeletedHandler' = FALSE
    /\ _toolModalStateChangedHandler' = FALSE
    /\ toolOp' = "clearSuppressTargetPaths"
    /\ events' = events + 1
    /\ UNCHANGED <<_layersReplaced, _layerDeleted, firstLaunch, resetTypeToolRequests>>
    /\ UNCHANGED docVars
    /\ UNCHANGED layerVars
    /\ UNCHANGED <<fetchVars, menuVars>>
    /\ UNCHANGED deletedInSession

ToolDeselect == ToolDeselectWithin(MaxEvents)

resetsTypeTool_always(op, first) == op = "setSuppressTargetPaths"

\* type.js 181-184: the callback of setSuppressTargetPaths(true) tests firstLaunch
resetsTypeTool(op, first) == op = "setSuppressTargetPaths" /\ first

\* type.js 181-189: the host answers the tool command's request
ToolHostResolve ==
    /\ toolOp # "idle"
    /\ IF resetsTypeTool(toolOp, firstLaunch)
       THEN /\ firstLaunch' = FALSE
            /\ resetTypeToolRequests' = resetTypeToolRequests + 1
            /\ toolOp' = "resetTypeTool"
       ELSE /\ toolOp' = "idle"
            /\ UNCHANGED <<firstLaunch, resetTypeToolRequests>>
    /\ UNCHANGED <<_typeChangedHandler, _layerCreatedHandler, _layerDeletedHandler,
                   _toolModalStateChangedHandler, listeners, _layersReplaced, _layerDeleted, events>>
    /\ UNCHANGED docVars
    /\ UNCHANGED layerVars
    /\ UNCHANGED <<fetchVars, menuVars>>
    /\ UNCHANGED deletedInSession

ToolHostReject ==
    /\ toolOp # "idle"
    /\ toolOp' = "idle"
    /\ UNCHANGED <<_typeChangedHandler, _layerCreatedHandler, _layerDeletedHandler,
                   _toolModalStateChangedHandler, listeners, _layersReplaced, _layerDeleted,
                   firstLaunch, resetTypeToolRequests, events>>
    /\ UNCHANGED docVars
    /\ UNCHANGED layerVars
    /\ UNCHANGED <<fetchVars, menuVars>>
    /\ UNCHANGED deletedInSession

\* layer IDs a text-tool event may name: a layer of the initial documents or a fresh one
EventLayerIDs == {2} \cup NewLayerIDs

currentLayer_none(doc, layerID) == FALSE

\* type.js 131-134: currentLayer = document.layers.byID(layerID), as a condition
currentLayer(doc, layerID) == byID(doc, layerID) # 0

\* type.js 122-158: _layerCreatedHandler. The style follow-up of lines 145-155
\* (type.updatePropertiesThrottled) touches no state kept here.
CreateTextLayerEventWithin(limit, layerID) ==
    /\ events < limit
    /\ listeners["createTextLayer"] > 0
    /\ events' = events + 1
    /\ hostLayerIDs' = hostLayerIDs \cup {layerID}
    /\ IF document.id = 0
       THEN /\ logged' = logged \cup {<<"error", "createTextLayer">>}
            /\ UNCHANGED <<queue, _layersReplaced>>
       ELSE IF currentLayer(document, layerID)
       THEN /\ logged' = logged \cup {<<"warn", "createTextLayer">>}
            /\ queue' = Append(queue, Command("resetLayers", "createTextLayer", document,
                                              <<layerID>>, "undefined", "undefined",
                                              "undefined"))
            /\ UNCHANGED _layersReplaced
       ELSE /\ _layersReplaced' = "false"
            /\ queue' = Append(queue, Command("addLayers", "createTextLayer", document,
                                              <<layerID>>, "true", "undefined",
                                              "undefined"))
            /\ UNCHANGED logged
    /\ UNCHANGED <<document, dispatched, transfers, results>>
    /\ UNCHANGED <<_typeChangedHandler, _layerCreatedHandler, _layerDeletedHandler,
                   _toolModalStateChangedHandler, listeners, _layerDeleted,
                   firstLaunch, toolOp, resetTypeToolRequests, deletedInSession>>
    /\ UNCHANGED layerVars
    /\ UNCHANGED <<fetchVars, menuVars>>

CreateTextLayerEvent(layerID) == CreateTextLayerEventWithin(MaxEvents, layerID)

\* type.js 161-164: _layerDeletedHandler
DeleteTextLayerEventWithin(limit, layerID) ==
    /\ events < limit
    /\ listeners["deleteTextLayer"] > 0
    /\ events' = events + 1
    /\ hostLayerIDs' = hostLayerIDs \ {layerID}
    /\ _layerDeleted' = layerID
    /\ queue' = Append(queue, Command("handleDeletedLayer", "deleteTextLayer", document,
                                      <<layerID>>, "undefined", "undefined",
                                      _layersReplaced))
    /\ UNCHANGED <<document, dispatched, transfers, logged, results>>
    /\ UNCHANGED <<_typeChangedHandler, _layerCreatedHandler, _layerDeletedHandler,
                   _toolModalStateChangedHandler, listeners, _layersReplaced,
                   firstLaunch, toolOp, resetTypeToolRequests>>
    /\ UNCHANGED layerVars
    /\ UNCHANGED <<fetchVars, menuVars>>
    /\ deletedInSession' = TRUE

DeleteTextLayerEvent(layerID) == DeleteTextLayerEventWithin(MaxEvents, layerID)

alreadyHandled_never(layerDeleted) == FALSE

\* type.js 171: if (_layerDeleted); 0 stands for null
alreadyHandled(layerDeleted) == layerDeleted # 0

\* type.js 167-178: _toolModalStateChangedHandler
ToolModalStateChangedEventWithin(limit, isTypeCancel) ==
    /\ events < limit
    /\ listeners["toolModalStateChanged"] > 0
    /\ events' = events + 1
    /\ IF ~isTypeCancel
       THEN UNCHANGED <<queue, _layerDeleted>>
       ELSE IF alreadyHandled(_layerDeleted)
       THEN /\ _layerDeleted' = 0
            /\ UNCHANGED queue
       ELSE /\ queue' = Append(queue, Command("handleTypeModalStateCanceled", "toolModalStateChanged",
                                              document, <<>>, "undefined", "undefined",
                                              "undefined"))
            /\ UNCHANGED _layerDeleted
    /\ UNCHANGED <<document, hostLayerIDs, dispatched, transfers, logged, results>>
    /\ UNCHANGED <<_typeChangedHandler, _layerCreatedHandler, _layerDeletedHandler,
                   _toolModalStateChangedHandler, listeners, _layersReplaced,
                   firstLaunch, toolOp, resetTypeToolRequests>>
    /\ UNCHANGED layerVars
    /\ UNCHANGED <<fetchVars, menuVars>>
    /\ UNCHANGED deletedInSession

ToolModalStateChangedEvent(isTypeCancel) == ToolModalStateChangedEventWithin(MaxEvents, isTypeCancel)

(* ------------------------------------------------------------------ *)
(* Layer tree (js/models/layerstructure)                               *)
(* ------------------------------------------------------------------ *)

Max(S) == CHOOSE x \in S : \A y \in S : y <= x

Min(S) == CHOOSE x \in S : \A y \in S : x <= y

\* the elements of a set of numbers in ascending order
Ascending(S) ==
    [k \in 1..Cardinality(S) |-> CHOOSE x \in S : Cardinality({y \in S : y <= x}) = k]

\* document.layers.depth(layer): the number of groups around the layer at
\* position i; the end marker of a group lies inside its group
depth(doc, i) ==
      Cardinality({j \in 1..(i - 1) : doc.layers[j].kind = "groupStart"})
    - Cardinality({j \in 1..(i - 1) : doc.layers[j].kind = "groupEnd"})

\* positions of the layer at position i and of all its descendants
descendants(doc, i) ==
    IF doc.layers[i].kind # "groupStart" THEN {i}
    ELSE i..Min({j \in (i + 1)..Len(doc.layers) :
                    /\ doc.layers[j].kind = "groupEnd"
                    /\ depth(doc, j) = depth(doc, i) + 1})

\* document.layers.maxDescendantDepth(layer)
maxDescendantDepth(doc, i) == Max({depth(doc, j) : j \in descendants(doc, i)})

\* position of the group that directly holds the layer at position i, 0 at
\* top level: the nearest group start above it that is one level less deep
parent(doc, i) ==
    Max({0} \cup {j \in 1..(i - 1) :
                    /\ doc.layers[j].kind = "groupStart"
                    /\ depth(doc, j) = depth(doc, i) - 1})

\* document.layers.selected
selectedLayers(doc) == {i \in 1..Len(doc.layers) : doc.layers[i].selected}

\* depth of the most deeply nested group of the document
groupNestingDepth(doc) ==
    Max({0} \cup {depth(doc, i) : i \in {j \in 1..Len(doc.layers) :
                                            doc.layers[j].kind = "groupStart"}})

\* SELECT_LAYERS_BY_ID
applySelectByID(doc, selectedIDs) ==
    [doc EXCEPT !.layers =
        [i \in 1..Len(doc.layers) |->
            [doc.layers[i] EXCEPT !.selected = (doc.layers[i].id \in selectedIDs)]]]

\* SELECT_LAYERS_BY_INDEX
applySelectByIndex(doc, selectedIndices) ==
    [doc EXCEPT !.layers =
        [i \in 1..Len(doc.layers) |->
            [doc.layers[i] EXCEPT !.selected = (i \in selectedIndices)]]]

\* GROUP_SELECTED: the selected layers and their descendants move, in order,
\* into a new group that stands where the topmost of them stood; the new
\* group becomes the selection
applyGroupSelected(doc, groupID, groupEndID) ==
    IF selectedLayers(doc) = {} THEN doc
    ELSE
    LET moved  == UNION {descendants(doc, i) : i \in selectedLayers(doc)}
        first  == Min(moved)
        inside == Ascending(moved)
        rest   == Ascending({i \in first..Len(doc.layers) : i \notin moved})
    IN  [doc EXCEPT !.layers =
               SubSeq(doc.layers, 1, first - 1)
            \o <<[GroupStart(groupID) EXCEPT !.selected = TRUE]>>
            \o [k \in 1..Len(inside) |-> [doc.layers[inside[k]] EXCEPT !.selected = FALSE]]
            \o <<GroupEnd(groupEndID)>>
            \o [k \in 1..Len(rest) |-> doc.layers[rest[k]]]]

(* ------------------------------------------------------------------ *)
(* Layer commands: select and groupSelected                            *)
(* ------------------------------------------------------------------ *)

\* an invocation of a layer command; id numbers the invocations
LayerCommand(kind, doc, layerSpec, modifier) ==
    [kind |-> kind, origin |-> "call", document |-> doc, layerSpec |-> layerSpec,
     selected |-> "undefined", replaceArg |-> "undefined", replace |-> "undefined",
     layersReplaced |-> "undefined",
     stage |-> "queued", inflight |-> 0, refs |-> <<>>,
     dispatchedBefore |-> Len(dispatched),
     modifier |-> modifier, id |-> Len(results) + 1]

LayerEvent(type, documentID, layerIDs, groupID, groupEndID, cmd) ==
    [type |-> type, documentID |-> documentID, layerIDs |-> layerIDs,
     selected |-> "undefined", replace |-> "undefined", command |-> cmd,
     groupID |-> groupID, groupEndID |-> groupEndID, groupname |-> groupID]

\* menuitem.js 774: if (!modifier || modifier === "select")
plainSelect(modifier) == modifier \in {"undefined", "select"}

\* menuitem.js 775-776: the SELECT_LAYERS_BY_ID payload
selectByIDPayload(cmd) ==
    LayerEvent("SELECT_LAYERS_BY_ID", cmd.document.id, cmd.layerSpec, 0, 0, cmd)

\* menuitem.js 790-791: the SELECT_LAYERS_BY_INDEX payload
selectByIndexPayload(cmd, targetLayers) ==
    LayerEvent("SELECT_LAYERS_BY_INDEX", cmd.document.id, Ascending(targetLayers), 0, 0, cmd)

exceedsNestDepth_offByOne(doc, i) == maxDescendantDepth(doc, i) > PS_MAX_NEST_DEPTH + 1

\* menuitem.js 928-930: the callback of selectedLayers.some
exceedsNestDepth(doc, i) == maxDescendantDepth(doc, i) > PS_MAX_NEST_DEPTH

nestingLimitExceeded_every(doc) == \A i \in selectedLayers(doc) : exceedsNestDepth(doc, i)

\* menuitem.js 927-930: selectedLayers.some(...)
nestingLimitExceeded(doc) == \E i \in selectedLayers(doc) : exceedsNestDepth(doc, i)

\* menuitem.js 919-934: the synchronous part of groupSelected, "resolve" for
\* the early returns and "play" when the host request is issued
groupSelectedLayersCommand(doc) ==
    IF Cardinality(selectedLayers(doc)) = 0 THEN "resolve"
    ELSE IF nestingLimitExceeded(doc) THEN "resolve"
    ELSE "play"

groupSelectedPayload_swapped(cmd, groupResult) ==
    [LayerEvent("GROUP_SELECTED", cmd.document.id, <<>>,
                groupResult.layerSectionEnd, groupResult.layerSectionStart, cmd)
        EXCEPT !.groupname = groupResult.name]

\* menuitem.js 938-943: the GROUP_SELECTED payload
groupSelectedPayload(cmd, groupResult) ==
    [LayerEvent("GROUP_SELECTED", cmd.document.id, <<>>,
                groupResult.layerSectionStart, groupResult.layerSectionEnd, cmd)
        EXCEPT !.groupname = groupResult.name]

\* the IDs and the name the host gives to the next group it creates; the
\* number 100 + n stands for the name "Group n"
hostGroupResult ==
    LET top == Max({0} \cup hostLayerIDs \cup LayerIDsOf(document))
    IN  [layerSectionStart |-> top + 1, layerSectionEnd |-> top + 2, name |-> 100 + top + 1]

\* layers a caller may pass to select: layers of the document that share
\* their parent (end markers are no layers of their own)
LayerSelections(doc) ==
    LET holder == [i \in 1..Len(doc.layers) |-> parent(doc, i)]
    IN  UNION { SUBSET {i \in 1..Len(doc.layers) :
                          doc.layers[i].kind # "groupEnd" /\ holder[i] = p} \ {{}} :
                p \in {0} \cup {j \in 1..Len(doc.layers) : doc.layers[j].kind = "groupStart"} }

\* the write locks a command declares (menuitem.js 1564-1700, type.js 191-221)
writes(kind) ==
    CASE kind \in {"select", "groupSelected", "rename", "selectAll", "deselectAll",
                   "deleteSelected", "groupSelectedInCurrentDocument", "setVisibility",
                   "setLocking", "setOpacity", "lockSelectedInCurrentDocument",
                   "unlockSelectedInCurrentDocument", "reorderLayers", "setBlendMode",
                   "setProportional", "createArtboard", "duplicate"} -> {"PS_DOC", "JS_DOC"}
      [] kind \in {"addLayers", "resetLayers", "resetLayersByIndex", "resetBounds",
                   "resetLinkedLayers"} -> {"JS_DOC"}
      [] kind = "beforeStartup" -> {"JS_DOC", "JS_SHORTCUT", "JS_POLICY", "PS_APP"}
      [] kind = "tool.type.select" -> {"PS_APP", "PS_TOOL"}
      [] kind = "tool.type.deselect" -> {"PS_APP"}
      [] kind \in {"updateTextPropertiesHandler", "handleDeletedLayer",
                   "handleTypeModalStateCanceled"} -> {}

\* the commands whose declaration is in the two modules
DeclaredCommands ==
    {"select", "groupSelected", "rename", "selectAll", "deselectAll", "deleteSelected",
     "groupSelectedInCurrentDocument", "setVisibility", "setLocking", "setOpacity",
     "lockSelectedInCurrentDocument", "unlockSelectedInCurrentDocument", "reorderLayers",
     "setBlendMode", "setProportional", "createArtboard", "duplicate", "addLayers",
     "resetLayers", "resetLayersByIndex", "resetBounds", "resetLinkedLayers",
     "beforeStartup", "tool.type.select", "tool.type.deselect",
     "updateTextPropertiesHandler", "handleDeletedLayer", "handleTypeModalStateCanceled"}

transfersOf_none(kind) == {}

\* the transfers declaration of a command (type.js 194, 219, 250, 289, 312);
\* the layer commands declare none
transfersOf(kind) ==
    CASE kind = "updateTextPropertiesHandler" -> {"type.updateProperties"}
      [] kind = "handleDeletedLayer" -> {"removeLayers", "updateDocument"}
      [] kind = "handleTypeModalStateCanceled" -> {"resetLayers"}
      [] OTHER -> {}

\* the this.transfer calls of the two modules, as <<caller, target>>
transferCalls ==
    { <<"resetLinkedLayers", "resetBounds">>,
      <<"selectAll", "select">>,
      <<"groupSelectedInCurrentDocument", "groupSelected">>,
      <<"setLocking", "addLayers">>,
      <<"lockSelectedInCurrentDocument", "setLocking">>,
      <<"unlockSelectedInCurrentDocument", "setLocking">>,
      <<"createArtboard", "updateDocument">>,
      <<"duplicate", "addLayers">>,
      <<"beforeStartup", "shortcuts.addShortcut">>,
      <<"updateTextPropertiesHandler", "type.updateProperties">>,
      <<"handleDeletedLayer", "updateDocument">>,
      <<"handleDeletedLayer", "removeLayers">>,
      <<"handleTypeModalStateCanceled", "resetLayers">> }

(* ------------------------------------------------------------------ *)
(* Actions: select and groupSelected                                   *)
(* ------------------------------------------------------------------ *)

\* a caller invokes layers.select(document, layerSpec, modifier) with the
\* current document, some of its layers and one of the given modifiers
SelectCall(modifiers) ==
    /\ document.id # 0
    /\ queue = <<>>
    /\ Len(results) < MaxLayerCalls
    /\ \E layerIndexes \in LayerSelections(document), modifier \in modifiers :
           queue' = <<LayerCommand("select", document,
                                   [k \in 1..Cardinality(layerIndexes) |->
                                       document.layers[Ascending(layerIndexes)[k]].id],
                                   modifier)>>
    /\ UNCHANGED <<document, hostLayerIDs, dispatched, transfers, logged, results>>
    /\ UNCHANGED <<toolVars, layerVars, fetchVars, menuVars>>

\* a caller invokes layers.groupSelected(document) with the current document
GroupSelectedCall ==
    /\ document.id # 0
    /\ queue = <<>>
    /\ Len(results) < MaxLayerCalls
    /\ queue' = <<LayerCommand("groupSelected", document, <<>>, "undefined")>>
    /\ UNCHANGED <<document, hostLayerIDs, dispatched, transfers, logged, results>>
    /\ UNCHANGED <<toolVars, layerVars, fetchVars, menuVars>>

\* menuitem.js 755-785: the synchronous part of select, with the optimistic
\* SELECT_LAYERS_BY_ID dispatch of a plain select
StartSelect ==
    /\ queue # <<>>
    /\ queue[1].stage = "queued"
    /\ queue[1].kind = "select"
    /\ LET cmd == queue[1] IN
       IF cmd.document.unsupported
       THEN /\ queue' = Tail1(queue)
            /\ results' = Append(results, Result(cmd, "resolved", "undefined"))
            /\ UNCHANGED <<document, dispatched>>
       ELSE /\ queue' = <<[cmd EXCEPT !.stage = "playing", !.inflight = 1]>> \o Tail1(queue)
            /\ IF plainSelect(cmd.modifier)
               THEN /\ dispatched' = Append(dispatched, selectByIDPayload(cmd))
                    /\ document' = IF document.id = cmd.document.id
                                   THEN applySelectByID(document, Range(cmd.layerSpec))
                                   ELSE document
               ELSE UNCHANGED <<document, dispatched>>
            /\ UNCHANGED results
    /\ UNCHANGED <<hostLayerIDs, transfers, logged>>
    /\ UNCHANGED <<toolVars, layerVars, fetchVars, menuVars>>

\* menuitem.js 785-797: the host has played the select object. For another
\* modifier the targetLayers query is issued and left on its own: the
\* callback returns nothing, so the command resolves at once
HostResolveSelect ==
    /\ queue # <<>>
    /\ queue[1].stage = "playing"
    /\ queue[1].kind = "select"
    /\ LET cmd == queue[1] IN
       /\ hostSelected' = IF plainSelect(cmd.modifier)
                          THEN Range(cmd.layerSpec)
                          ELSE hostSelected \cup Range(cmd.layerSpec)
       /\ floating' = IF plainSelect(cmd.modifier)
                      THEN floating
                      ELSE Append(floating, [request |-> "targetLayers", command |-> cmd])
       /\ queue' = Tail1(queue)
       /\ results' = Append(results, Result(cmd, "resolved", "undefined"))
    /\ UNCHANGED <<document, hostLayerIDs, dispatched, transfers, logged>>
    /\ UNCHANGED <<toolVars, fetchVars, menuVars>>
    /\ UNCHANGED timers

\* menuitem.js 788-792: the host answers a targetLayers query
FloatingResolve ==
    /\ floating # <<>>
    /\ LET cmd == floating[1].command
           targetLayers == {i \in 1..Len(document.layers) :
                               document.layers[i].id \in hostSelected}
       IN  /\ dispatched' = Append(dispatched, selectByIndexPayload(cmd, targetLayers))
           /\ document' = IF document.id = cmd.document.id
                          THEN applySelectByIndex(document, targetLayers)
                          ELSE document
    /\ floating' = Tail1(floating)
    \* menuitem.js 1541: the delete listener then asks for the default tool
    /\ logged' = IF floating[1].command.kind = "beforeStartup"
                 THEN logged \cup {<<"call", "tools.select">>}
                 ELSE logged
    /\ UNCHANGED <<hostLayerIDs, queue, transfers, results>>
    /\ UNCHANGED hostSelected
    /\ UNCHANGED <<toolVars, fetchVars, menuVars>>
    /\ UNCHANGED timers

\* the host rejects a targetLayers query: nothing handles the rejection
FloatingReject ==
    /\ floating # <<>>
    /\ floating' = Tail1(floating)
    /\ UNCHANGED hostSelected
    /\ UNCHANGED <<docVars, toolVars, fetchVars, menuVars>>
    /\ UNCHANGED timers

\* menuitem.js 919-936: the synchronous part of groupSelected
StartGroupSelected ==
    /\ queue # <<>>
    /\ queue[1].stage = "queued"
    /\ queue[1].kind = "groupSelected"
    /\ LET cmd == queue[1] IN
       IF groupSelectedLayersCommand(cmd.document) = "resolve"
       THEN /\ queue' = Tail1(queue)
            /\ results' = Append(results, Result(cmd, "resolved", "undefined"))
       ELSE /\ queue' = <<[cmd EXCEPT !.stage = "playing", !.inflight = 1]>> \o Tail1(queue)
            /\ UNCHANGED results
    /\ UNCHANGED <<document, hostLayerIDs, dispatched, transfers, logged>>
    /\ UNCHANGED <<toolVars, layerVars, fetchVars, menuVars>>

\* menuitem.js 936-947: the host has grouped its selected layers
HostResolveGroupSelected ==
    /\ queue # <<>>
    /\ queue[1].stage = "playing"
    /\ queue[1].kind = "groupSelected"
    /\ LET cmd == queue[1]
           groupResult == hostGroupResult
       IN  /\ dispatched' = Append(dispatched, groupSelectedPayload(cmd, groupResult))
           /\ document' = IF document.id = cmd.document.id
                          THEN applyGroupSelected(document, groupResult.layerSectionStart,
                                                  groupResult.layerSectionEnd)
                          ELSE document
           /\ hostLayerIDs' = hostLayerIDs \cup {groupResult.layerSectionStart,
                                                 groupResult.layerSectionEnd}
           /\ hostSelected' = {groupResult.layerSectionStart}
           /\ queue' = Tail1(queue)
           /\ results' = Append(results, Result(cmd, "resolved", "undefined"))
    /\ UNCHANGED <<transfers, logged, floating>>
    /\ UNCHANGED <<toolVars, fetchVars, menuVars>>
    /\ UNCHANGED timers

\* the host rejects the request of select or groupSelected: the command rejects
HostRejectPlay ==
    /\ queue # <<>>
    /\ queue[1].stage = "playing"
    /\ queue' = Tail1(queue)
    /\ results' = Append(results, Result(queue[1], "rejected", "undefined"))
    /\ UNCHANGED <<document, hostLayerIDs, dispatched, transfers, logged>>
    /\ UNCHANGED <<toolVars, layerVars, fetchVars, menuVars>>

(* ------------------------------------------------------------------ *)
(* Layer commands with an optimistic dispatch                          *)
(* ------------------------------------------------------------------ *)

\* rename, setVisibility, setLocking, setOpacity, setBlendMode, setProportional
OptimisticKinds ==
    {"rename", "setVisibility", "setLocking", "setOpacity", "setBlendMode", "setProportional"}

\* the event each of them dispatches (menuitem.js 816, 989, 1032, 1077, 1217, 1251)
optimisticEventType(kind) ==
    CASE kind = "rename"          -> "RENAME_LAYER"
      [] kind = "setVisibility"   -> "VISIBILITY_CHANGED"
      [] kind = "setLocking"      -> "LOCK_CHANGED"
      [] kind = "setOpacity"      -> "OPACITY_CHANGED"
      [] kind = "setBlendMode"    -> "BLEND_MODE_CHANGED"
      [] kind = "setProportional" -> "SET_LAYERS_PROPORTIONAL"

\* an invocation of one of these commands on one layer of the document;
\* asyncDispatch and host are the states of the two joined promises,
\* hostFirst tells that the host promise was fulfilled before the dispatch ran
OptimisticCommand(kind, doc, layerID, value) ==
    [kind |-> kind, origin |-> "call", document |-> doc, layerSpec |-> <<layerID>>,
     selected |-> "undefined", replaceArg |-> "undefined", replace |-> "undefined",
     layersReplaced |-> "undefined",
     stage |-> "queued", inflight |-> 0, refs |-> <<>>,
     dispatchedBefore |-> Len(dispatched),
     modifier |-> "undefined", id |-> Len(results) + 1,
     value |-> value, asyncDispatch |-> "none", host |-> "none", hostStep |-> "none",
     hostFirst |-> FALSE]

\* the payload of the optimistic event
optimisticPayload(cmd) ==
    LayerEvent(optimisticEventType(cmd.kind), cmd.document.id, cmd.layerSpec, 0, 0, cmd)

scheduledDispatches_none(cmd) == <<>>

\* this.dispatchAsync(event, payload), and Promise.bind(this).then(dispatch) of
\* setProportional: the dispatch runs in a later turn of the event loop
scheduledDispatches(cmd) == <<[event |-> optimisticPayload(cmd), command |-> cmd.id]>>

firstHostStep_unlockOnly(cmd) ==
    IF cmd.kind = "setLocking"
       /\ byID(cmd.document, cmd.layerSpec[1]) # 0
       /\ cmd.document.layers[byID(cmd.document, cmd.layerSpec[1])].isBackground
       /\ ~cmd.value
    THEN "unlockBackground"
    ELSE "play"

\* menuitem.js 1034-1038: a background layer is unlocked inside the host,
\* every other layer gets the lock request; the other commands play their request
firstHostStep(cmd) ==
    IF cmd.kind = "setLocking"
       /\ byID(cmd.document, cmd.layerSpec[1]) # 0
       /\ cmd.document.layers[byID(cmd.document, cmd.layerSpec[1])].isBackground
    THEN "unlockBackground"
    ELSE "play"

joinState_hostOnly(dispatchState, hostState) ==
    IF hostState = "rejected" THEN "rejected"
    ELSE IF hostState = "resolved" THEN "resolved"
    ELSE "pending"

\* Promise.join(dispatchPromise, hostPromise): rejected as soon as the host
\* promise is, fulfilled once both are
joinState(dispatchState, hostState) ==
    IF hostState = "rejected" THEN "rejected"
    ELSE IF hostState = "resolved" /\ dispatchState = "done" THEN "resolved"
    ELSE "pending"

\* the running command after one of its two promises changed: it leaves the
\* queue when the join has settled
Settle(cmd) ==
    IF joinState(cmd.asyncDispatch, cmd.host) = "pending"
    THEN /\ queue' = <<cmd>> \o Tail1(queue)
         /\ UNCHANGED results
    ELSE /\ queue' = Tail1(queue)
         /\ results' = Append(results,
                              Result(cmd, joinState(cmd.asyncDispatch, cmd.host), "undefined"))

\* a caller invokes one of the commands with the current document and one of
\* its layers
OptimisticCall(kind, value) ==
    /\ document.id # 0
    /\ queue = <<>>
    /\ Len(results) < MaxCalls
    /\ \E i \in 1..Len(document.layers) :
           queue' = <<OptimisticCommand(kind, document, document.layers[i].id, value)>>
    /\ UNCHANGED <<document, hostLayerIDs, dispatched, transfers, logged, results>>
    /\ UNCHANGED <<toolVars, layerVars, fetchVars, menuVars>>

\* the synchronous part: the dispatch is scheduled and the host request sent
\* (renameLayerCommand 809-825, setVisibilityCommand 976-992, setLockingCommand
\* 1020-1040, setOpacityCommand 1051-1081, setBlendModeCommand 1194-1221,
\* setProportionalCommand 1232-1271)
StartOptimistic ==
    /\ queue # <<>>
    /\ queue[1].stage = "queued"
    /\ queue[1].kind \in OptimisticKinds
    /\ timers' = timers \o scheduledDispatches(queue[1])
    /\ queue' = <<[queue[1] EXCEPT !.stage = "joining", !.inflight = 1,
                                   !.asyncDispatch = "scheduled", !.host = "pending",
                                   !.hostStep = firstHostStep(queue[1])]>> \o Tail1(queue)
    /\ UNCHANGED <<document, hostLayerIDs, dispatched, transfers, logged, results>>
    /\ UNCHANGED <<floating, hostSelected>>
    /\ UNCHANGED <<toolVars, fetchVars, menuVars>>

\* the document store's answer to a scheduled event: SELECT_LAYERS_BY_ID sets
\* the selection, DELETE_LAYERS removes the layers, the property events touch
\* no layer attribute kept here
applyScheduled(doc, event) ==
    IF event.type = "SELECT_LAYERS_BY_ID" /\ doc.id = event.documentID
    THEN applySelectByID(doc, Range(event.layerIDs))
    ELSE IF event.type = "DELETE_LAYERS" /\ doc.id = event.documentID
    THEN applyDeleteLayers(doc, event.layerIDs)
    ELSE doc

\* a scheduled dispatch runs
TimerFires ==
    /\ timers # <<>>
    /\ timers' = Tail1(timers)
    /\ dispatched' = Append(dispatched, timers[1].event)
    /\ document' = applyScheduled(document, timers[1].event)
    /\ IF queue # <<>> /\ queue[1].stage = "joining" /\ queue[1].id = timers[1].command
       THEN Settle([queue[1] EXCEPT !.asyncDispatch = "done"])
       ELSE UNCHANGED <<queue, results>>
    /\ UNCHANGED <<hostLayerIDs, transfers, logged>>
    /\ UNCHANGED <<floating, hostSelected>>
    /\ UNCHANGED <<toolVars, fetchVars, menuVars>>

\* the host answers the request the running command waits for. After
\* unlockBackground the command transfers to addLayers(document, layerID, true,
\* true) with the layer ID of the host's answer (menuitem.js 1002-1008)
HostResolveOptimistic ==
    /\ queue # <<>>
    /\ queue[1].stage = "joining"
    /\ queue[1].host = "pending"
    /\ LET cmd == queue[1]
           unlocked == Max({0} \cup hostLayerIDs \cup LayerIDsOf(document)) + 1
           add == [cmd EXCEPT !.layerSpec = cmd.refs, !.selected = "true", !.replace = "true"]
       IN  CASE cmd.hostStep = "play" ->
                  /\ Settle([cmd EXCEPT !.host = "resolved", !.inflight = 0,
                                        !.hostFirst = (cmd.asyncDispatch # "done")])
                  /\ hostLayerIDs' = IF cmd.kind = "deleteSelected"
                                     THEN hostLayerIDs \ Range(cmd.layerSpec)
                                     ELSE hostLayerIDs
                  /\ UNCHANGED <<document, dispatched, transfers>>
             [] cmd.hostStep = "unlockBackground" ->
                  /\ queue' = <<[cmd EXCEPT !.hostStep = "addLayers", !.inflight = 2,
                                            !.refs = <<unlocked>>]>> \o Tail1(queue)
                  /\ transfers' = Append(transfers, Transfer("setLocking", "addLayers", unlocked))
                  /\ hostLayerIDs' = (hostLayerIDs \ Range(cmd.layerSpec)) \cup {unlocked}
                  /\ UNCHANGED <<document, dispatched, results>>
             [] cmd.hostStep = "addLayers" /\ cmd.inflight > 1 ->
                  /\ queue' = <<[cmd EXCEPT !.inflight = @ - 1]>> \o Tail1(queue)
                  /\ UNCHANGED <<document, hostLayerIDs, dispatched, transfers, results>>
             [] cmd.hostStep = "addLayers" /\ cmd.inflight = 1 ->
                  /\ dispatched' = Append(dispatched, addLayersPayload(add))
                  /\ document' = IF document.id = cmd.document.id
                                 THEN applyAddLayers(document, add.layerSpec, "true", "true")
                                 ELSE document
                  /\ Settle([cmd EXCEPT !.host = "resolved", !.inflight = 0,
                                        !.hostFirst = (cmd.asyncDispatch # "done")])
                  /\ UNCHANGED <<hostLayerIDs, transfers>>
    /\ hostSelected' = IF queue[1].kind = "deselectAll" THEN {} ELSE hostSelected
    /\ UNCHANGED <<logged, timers, floating>>
    /\ UNCHANGED <<toolVars, fetchVars, menuVars>>

\* the host rejects the request the running command waits for
HostRejectOptimistic ==
    /\ queue # <<>>
    /\ queue[1].stage = "joining"
    /\ queue[1].host = "pending"
    /\ Settle([queue[1] EXCEPT !.host = "rejected", !.inflight = 0])
    /\ UNCHANGED <<document, hostLayerIDs, dispatched, transfers, logged, timers>>
    /\ UNCHANGED <<floating, hostSelected>>
    /\ UNCHANGED <<toolVars, fetchVars, menuVars>>

(* ------------------------------------------------------------------ *)
(* selectAll and deselectAll                                           *)
(* ------------------------------------------------------------------ *)

flatDocument_empty(doc) == Len(doc.layers) = 0

\* menuitem.js 839-840: document.layers.all.size === 1 &&
\* document.layers.all.first().isBackground
flatDocument(doc) == Len(doc.layers) = 1 /\ doc.layers[1].isBackground

\* menuitem.js 833-842: the early return of deselectAll; a document with id 0
\* is no document
deselectAllLayersCommand(doc) ==
    IF doc.id = 0 \/ doc.unsupported \/ flatDocument(doc) THEN "resolve" ELSE "play"

\* menuitem.js 862-870: the early return of selectAll
selectAllLayersCommand(doc) ==
    IF doc.id = 0 \/ doc.unsupported \/ Len(doc.layers) = 0 THEN "resolve" ELSE "transfer"

\* menuitem.js 844-847: the SELECT_LAYERS_BY_ID payload of deselectAll
deselectAllPayload(cmd) ==
    LayerEvent("SELECT_LAYERS_BY_ID", cmd.document.id, <<>>, 0, 0, cmd)

\* a caller invokes layers.deselectAll() or layers.deselectAll(document): the
\* command works on the current document
DeselectAllCall ==
    /\ queue = <<>>
    /\ Len(results) < MaxLayerCalls
    /\ queue' = <<OptimisticCommand("deselectAll", document, 0, FALSE)>>
    /\ UNCHANGED <<document, hostLayerIDs, dispatched, transfers, logged, results>>
    /\ UNCHANGED <<toolVars, layerVars, fetchVars, menuVars>>

\* a caller invokes layers.selectAll() or layers.selectAll(document)
SelectAllCall ==
    /\ queue = <<>>
    /\ Len(results) < MaxLayerCalls
    /\ queue' = <<OptimisticCommand("selectAll", document, 0, FALSE)>>
    /\ UNCHANGED <<document, hostLayerIDs, dispatched, transfers, logged, results>>
    /\ UNCHANGED <<toolVars, layerVars, fetchVars, menuVars>>

\* menuitem.js 833-854
StartDeselectAll ==
    /\ queue # <<>>
    /\ queue[1].stage = "queued"
    /\ queue[1].kind = "deselectAll"
    /\ LET cmd == queue[1] IN
       IF deselectAllLayersCommand(cmd.document) = "resolve"
       THEN /\ queue' = Tail1(queue)
            /\ results' = Append(results, Result(cmd, "resolved", "undefined"))
            /\ UNCHANGED timers
       ELSE /\ timers' = Append(timers, [event |-> deselectAllPayload(cmd), command |-> cmd.id])
            /\ queue' = <<[cmd EXCEPT !.stage = "joining", !.inflight = 1,
                                      !.asyncDispatch = "scheduled", !.host = "pending",
                                      !.hostStep = "play"]>> \o Tail1(queue)
            /\ UNCHANGED results
    /\ UNCHANGED <<document, hostLayerIDs, dispatched, transfers, logged>>
    /\ UNCHANGED <<floating, hostSelected>>
    /\ UNCHANGED <<toolVars, fetchVars, menuVars>>

\* menuitem.js 862-873: selectAll, and after the transfer the synchronous
\* part of select (755-785) for all layers of the document and no modifier
StartSelectAll ==
    /\ queue # <<>>
    /\ queue[1].stage = "queued"
    /\ queue[1].kind = "selectAll"
    /\ LET cmd == queue[1]
           sel == [cmd EXCEPT !.kind = "select", !.origin = "selectAll",
                              !.layerSpec = [i \in 1..Len(cmd.document.layers) |->
                                                cmd.document.layers[i].id],
                              !.stage = "playing", !.inflight = 1]
       IN
       IF selectAllLayersCommand(cmd.document) = "resolve"
       THEN /\ queue' = Tail1(queue)
            /\ results' = Append(results, Result(cmd, "resolved", "undefined"))
            /\ UNCHANGED <<document, dispatched, transfers>>
       ELSE /\ transfers' = Append(transfers, Transfer("selectAll", "select", 0))
            /\ queue' = <<sel>> \o Tail1(queue)
            /\ dispatched' = Append(dispatched, selectByIDPayload(sel))
            /\ document' = IF document.id = cmd.document.id
                           THEN applySelectByID(document, Range(sel.layerSpec))
                           ELSE document
            /\ UNCHANGED results
    /\ UNCHANGED <<hostLayerIDs, logged>>
    /\ UNCHANGED <<toolVars, layerVars, fetchVars, menuVars>>

(* ------------------------------------------------------------------ *)
(* deleteSelected and the commands on the current document             *)
(* ------------------------------------------------------------------ *)

\* document.layers.allSelected: the selected layers and their descendants
allSelected(doc) == UNION {descendants(doc, i) : i \in selectedLayers(doc)}

deleteSelectedLayersCommand_anySelection(doc, selectedLayersDeletable) ==
    IF doc.id = 0 \/ doc.unsupported \/ Len(doc.layers) = 0 THEN "resolve" ELSE "play"

\* menuitem.js 886-890: the early return of deleteSelected;
\* document.layers.selectedLayersDeletable is read from the layer structure
deleteSelectedLayersCommand(doc, selectedLayersDeletable) ==
    IF doc.id = 0 \/ doc.unsupported \/ Len(doc.layers) = 0 \/ ~selectedLayersDeletable
    THEN "resolve"
    ELSE "play"

\* menuitem.js 892-899: the DELETE_LAYERS payload
deleteSelectedPayload(cmd) ==
    LayerEvent("DELETE_LAYERS", cmd.document.id, cmd.layerSpec, 0, 0, cmd)

\* menuitem.js 951-961, 1090-1096: the commands on the current document
\* return at once when there is none
inCurrentDocument(currentDocument) ==
    IF currentDocument.id = 0 THEN "resolve" ELSE "transfer"

\* a caller invokes layers.deleteSelected(): the command works on the current
\* document; the layer structure tells whether its selection may be deleted
DeleteSelectedCall(selectedLayersDeletable) ==
    /\ queue = <<>>
    /\ Len(results) < MaxLayerCalls
    /\ queue' = <<OptimisticCommand("deleteSelected", document, 0, selectedLayersDeletable)>>
    /\ UNCHANGED <<document, hostLayerIDs, dispatched, transfers, logged, results>>
    /\ UNCHANGED <<toolVars, layerVars, fetchVars, menuVars>>

\* a caller invokes layers.groupSelectedInCurrentDocument()
GroupSelectedInCurrentDocumentCall ==
    /\ queue = <<>>
    /\ Len(results) < MaxLayerCalls
    /\ queue' = <<OptimisticCommand("groupSelectedInCurrentDocument", document, 0, FALSE)>>
    /\ UNCHANGED <<document, hostLayerIDs, dispatched, transfers, logged, results>>
    /\ UNCHANGED <<toolVars, layerVars, fetchVars, menuVars>>

\* a caller invokes layers.lockSelectedInCurrentDocument() or
\* layers.unlockSelectedInCurrentDocument(); at most one layer is selected
LockSelectedInCurrentDocumentCall(locked) ==
    /\ queue = <<>>
    /\ Len(results) < MaxLayerCalls
    /\ Cardinality(selectedLayers(document)) <= 1
    /\ queue' = <<OptimisticCommand(IF locked THEN "lockSelectedInCurrentDocument"
                                              ELSE "unlockSelectedInCurrentDocument",
                                    document, 0, locked)>>
    /\ UNCHANGED <<document, hostLayerIDs, dispatched, transfers, logged, results>>
    /\ UNCHANGED <<toolVars, layerVars, fetchVars, menuVars>>

\* menuitem.js 881-911
StartDeleteSelected ==
    /\ queue # <<>>
    /\ queue[1].stage = "queued"
    /\ queue[1].kind = "deleteSelected"
    /\ LET cmd == queue[1]
           layers == Ascending(allSelected(cmd.document))
           del == [cmd EXCEPT !.layerSpec = [k \in 1..Len(layers) |->
                                                cmd.document.layers[layers[k]].id],
                              !.stage = "joining", !.inflight = 1,
                              !.asyncDispatch = "scheduled", !.host = "pending",
                              !.hostStep = "play"]
       IN
       IF deleteSelectedLayersCommand(cmd.document, cmd.value) = "resolve"
       THEN /\ queue' = Tail1(queue)
            /\ results' = Append(results, Result(cmd, "resolved", "undefined"))
            /\ UNCHANGED timers
       ELSE /\ timers' = Append(timers, [event |-> deleteSelectedPayload(del), command |-> cmd.id])
            /\ queue' = <<del>> \o Tail1(queue)
            /\ UNCHANGED results
    /\ UNCHANGED <<document, hostLayerIDs, dispatched, transfers, logged>>
    /\ UNCHANGED <<floating, hostSelected>>
    /\ UNCHANGED <<toolVars, fetchVars, menuVars>>

\* menuitem.js 951-962: groupSelectedInCurrentDocument, and after the transfer
\* the synchronous part of groupSelected (919-936) on the current document
StartGroupSelectedInCurrentDocument ==
    /\ queue # <<>>
    /\ queue[1].stage = "queued"
    /\ queue[1].kind = "groupSelectedInCurrentDocument"
    /\ LET cmd == queue[1]
           grp == [cmd EXCEPT !.kind = "groupSelected",
                              !.origin = "groupSelectedInCurrentDocument",
                              !.document = document]
       IN
       IF inCurrentDocument(document) = "resolve"
       THEN /\ queue' = Tail1(queue)
            /\ results' = Append(results, Result(cmd, "resolved", "undefined"))
            /\ UNCHANGED transfers
       ELSE /\ transfers' = Append(transfers,
                                   Transfer("groupSelectedInCurrentDocument", "groupSelected", 0))
            /\ IF groupSelectedLayersCommand(document) = "resolve"
               THEN /\ queue' = Tail1(queue)
                    /\ results' = Append(results, Result(grp, "resolved", "undefined"))
               ELSE /\ queue' = <<[grp EXCEPT !.stage = "playing", !.inflight = 1]>> \o Tail1(queue)
                    /\ UNCHANGED results
    /\ UNCHANGED <<document, hostLayerIDs, dispatched, logged>>
    /\ UNCHANGED <<toolVars, layerVars, fetchVars, menuVars>>

\* menuitem.js 1090-1121: _setLockingInCurrentDocument, and after the transfer
\* the synchronous part of setLocking (1020-1040) for the selected layer
StartLockSelectedInCurrentDocument ==
    /\ queue # <<>>
    /\ queue[1].stage = "queued"
    /\ queue[1].kind \in {"lockSelectedInCurrentDocument", "unlockSelectedInCurrentDocument"}
    /\ LET cmd == queue[1]
           selected == Ascending(selectedLayers(document))
           lock == [cmd EXCEPT !.kind = "setLocking", !.origin = cmd.kind,
                               !.document = document,
                               !.layerSpec = [k \in 1..Len(selected) |->
                                                 document.layers[selected[k]].id]]
       IN
       IF inCurrentDocument(document) = "resolve" \/ Len(selected) = 0
       THEN /\ queue' = Tail1(queue)
            /\ results' = Append(results, Result(cmd, "resolved", "undefined"))
            /\ UNCHANGED <<transfers, timers>>
       ELSE /\ transfers' = Append(transfers, Transfer(cmd.kind, "setLocking", lock.layerSpec[1]))
            /\ timers' = timers \o scheduledDispatches(lock)
            /\ queue' = <<[lock EXCEPT !.stage = "joining", !.inflight = 1,
                                       !.asyncDispatch = "scheduled", !.host = "pending",
                                       !.hostStep = firstHostStep(lock)]>> \o Tail1(queue)
            /\ UNCHANGED results
    /\ UNCHANGED <<document, hostLayerIDs, dispatched, logged>>
    /\ UNCHANGED <<floating, hostSelected>>
    /\ UNCHANGED <<toolVars, fetchVars, menuVars>>

(* ------------------------------------------------------------------ *)
(* reorder                                                             *)
(* ------------------------------------------------------------------ *)

\* menuitem.js 1167-1173: the host requests of reorder, each issued in the
\* callback of the one before
reorderHostSteps == <<"reorder", "get", "batchGetProperty">>

reorderDispatches_always(answered) == TRUE

\* menuitem.js 1173-1180: REORDER_LAYERS is dispatched in the callback of
\* _getLayerIDsForDocument, the last of the three requests
reorderDispatches(answered) == answered = Len(reorderHostSteps)

\* menuitem.js 1137-1141: the host moves the layers to targetIndex, 0 being the
\* bottom of the document; the result is the host's order from the top down
hostReorder(order, layerIDs, targetIndex) ==
    LET moved == SelectSeq(order, LAMBDA id : id \in Range(layerIDs))
        rest  == SelectSeq(order, LAMBDA id : id \notin Range(layerIDs))
        below == Cardinality({p \in 1..Len(order) :
                                 /\ order[p] \notin Range(layerIDs)
                                 /\ Len(order) - p + 1 <= targetIndex})
    IN  SubSeq(rest, 1, Len(rest) - below) \o moved
            \o SubSeq(rest, Len(rest) - below + 1, Len(rest))

\* menuitem.js 1122-1134, 1173-1178: the layer IDs the host returns for the
\* indexes of _getLayerIDsForDocument, as the REORDER_LAYERS payload
reorderPayload(cmd) ==
    LET indexes == _getLayerIDsForDocument(cmd.document)
        layerIDs == [p \in 1..Len(indexes) |->
                        cmd.refs[Len(cmd.refs) - indexes[p] + startIndex(cmd.document)]]
    IN  LayerEvent("REORDER_LAYERS", cmd.document.id, layerIDs, 0, 0, cmd)

\* REORDER_LAYERS: the layers take the order of the payload
applyReorderLayers(doc, layerIDs) ==
    IF Range(layerIDs) = LayerIDsOf(doc) /\ Len(layerIDs) = Len(doc.layers)
    THEN [doc EXCEPT !.layers = [p \in 1..Len(layerIDs) |-> doc.layers[byID(doc, layerIDs[p])]]]
    ELSE doc

\* the documents' layers a caller may move: one layer or two
ReorderSpecs(doc) ==
    { q \in UNION { [1..n -> LayerIDsOf(doc)] : n \in 1..2 } :
        \A i, j \in 1..Len(q) : i < j => q[i] > q[j] }

\* a caller invokes layers.reorder(documentID, layerSpec, targetIndex) for
\* the current document
ReorderCall(layerSpec, targetIndex) ==
    /\ document.id # 0
    /\ queue = <<>>
    /\ Len(results) < MaxCalls
    /\ queue' = <<[OptimisticCommand("reorderLayers", document, 0, targetIndex)
                      EXCEPT !.layerSpec = layerSpec]>>
    /\ UNCHANGED <<document, hostLayerIDs, dispatched, transfers, logged, results>>
    /\ UNCHANGED <<toolVars, layerVars, fetchVars, menuVars>>

\* the dispatch of reorder, where reorderDispatches places it
ReorderDispatch(cmd, answered) ==
    IF reorderDispatches(answered)
    THEN /\ dispatched' = Append(dispatched, reorderPayload(cmd))
         /\ document' = IF document.id = cmd.document.id
                        THEN applyReorderLayers(document, reorderPayload(cmd).layerIDs)
                        ELSE document
    ELSE UNCHANGED <<document, dispatched>>

\* menuitem.js 1151-1167: the synchronous part of reorder: the reorder object
\* is played
StartReorder ==
    /\ queue # <<>>
    /\ queue[1].stage = "queued"
    /\ queue[1].kind = "reorderLayers"
    /\ LET cmd == [queue[1] EXCEPT !.stage = "reordering", !.inflight = 1,
                                   !.host = "pending", !.hostStep = reorderHostSteps[1],
                                   !.refs = [i \in 1..Len(queue[1].document.layers) |->
                                                queue[1].document.layers[i].id]]
       IN  /\ queue' = <<cmd>> \o Tail1(queue)
           /\ ReorderDispatch(cmd, 0)
    /\ UNCHANGED <<hostLayerIDs, transfers, logged, results>>
    /\ UNCHANGED <<toolVars, layerVars, fetchVars, menuVars>>

\* menuitem.js 1167-1183: the host answers the request in flight; the next
\* request is issued, and after the last one the event is dispatched and the
\* command resolves
HostResolveReorder ==
    /\ queue # <<>>
    /\ queue[1].stage = "reordering"
    /\ LET answered == queue[1].inflight
           cmd == IF answered = 1
                  THEN [queue[1] EXCEPT !.refs = hostReorder(queue[1].refs, queue[1].layerSpec,
                                                             queue[1].value)]
                  ELSE queue[1]
       IN  /\ ReorderDispatch(cmd, answered)
           /\ IF answered < Len(reorderHostSteps)
              THEN /\ queue' = <<[cmd EXCEPT !.inflight = answered + 1,
                                             !.hostStep = reorderHostSteps[answered + 1]]>>
                                   \o Tail1(queue)
                   /\ UNCHANGED results
              ELSE /\ queue' = Tail1(queue)
                   /\ results' = Append(results,
                                        Result([cmd EXCEPT !.host = "resolved", !.inflight = 0],
                                               "resolved", "undefined"))
    /\ UNCHANGED <<hostLayerIDs, transfers, logged>>
    /\ UNCHANGED <<toolVars, layerVars, fetchVars, menuVars>>

\* the host rejects the request in flight: the rest of the chain is skipped
\* and the command rejects
HostRejectReorder ==
    /\ queue # <<>>
    /\ queue[1].stage = "reordering"
    /\ queue' = Tail1(queue)
    /\ results' = Append(results, Result([queue[1] EXCEPT !.host = "rejected"],
                                         "rejected", "undefined"))
    /\ UNCHANGED <<document, hostLayerIDs, dispatched, transfers, logged>>
    /\ UNCHANGED <<toolVars, layerVars, fetchVars, menuVars>>

(* ------------------------------------------------------------------ *)
(* duplicate                                                           *)
(* ------------------------------------------------------------------ *)

\* menuitem.js 1347-1349: the early return of duplicate
duplicateCommand(fromLayers) == IF Len(fromLayers) = 0 THEN "resolve" ELSE "play"

\* menuitem.js 1375-1378: the IDs of the host's results, concatenated; the
\* host gives each copy the next free ID
duplicatedLayerIDs(fromLayers) ==
    LET top == Max({0} \cup hostLayerIDs \cup LayerIDsOf(document))
    IN  [k \in 1..Len(fromLayers) |-> top + k]

\* a caller invokes layers.duplicate(document, fromDocument, fromLayers) with
\* the current document as source and target
DuplicateCall(fromLayers) ==
    /\ document.id # 0
    /\ queue = <<>>
    /\ Len(results) < MaxCalls
    /\ queue' = <<[OptimisticCommand("duplicate", document, 0, FALSE)
                      EXCEPT !.layerSpec = fromLayers]>>
    /\ UNCHANGED <<document, hostLayerIDs, dispatched, transfers, logged, results>>
    /\ UNCHANGED <<toolVars, layerVars, fetchVars, menuVars>>

\* menuitem.js 1346-1371: the synchronous part of duplicate
StartDuplicate ==
    /\ queue # <<>>
    /\ queue[1].stage = "queued"
    /\ queue[1].kind = "duplicate"
    /\ IF duplicateCommand(queue[1].layerSpec) = "resolve"
       THEN /\ queue' = Tail1(queue)
            /\ results' = Append(results, Result(queue[1], "resolved", "undefined"))
       ELSE /\ queue' = <<[queue[1] EXCEPT !.stage = "playing", !.inflight = 1]>> \o Tail1(queue)
            /\ UNCHANGED results
    /\ UNCHANGED <<document, hostLayerIDs, dispatched, transfers, logged>>
    /\ UNCHANGED <<toolVars, layerVars, fetchVars, menuVars>>

\* menuitem.js 1371-1382: the host has made the copies; the command transfers
\* to addLayers(document, allLayerIDs), whose synchronous part runs (565-595)
HostResolveDuplicate ==
    /\ queue # <<>>
    /\ queue[1].stage = "playing"
    /\ queue[1].kind = "duplicate"
    /\ LET allLayerIDs == duplicatedLayerIDs(queue[1].layerSpec)
           add == [queue[1] EXCEPT !.kind = "addLayers", !.origin = "duplicate",
                                   !.layerSpec = allLayerIDs]
       IN  /\ transfers' = Append(transfers, Transfer("duplicate", "addLayers", allLayerIDs[1]))
           /\ hostLayerIDs' = hostLayerIDs \cup Range(allLayerIDs)
           /\ queue' = <<addLayersCommand(add)>> \o Tail1(queue)
    /\ UNCHANGED <<document, dispatched, logged, results>>
    /\ UNCHANGED <<toolVars, layerVars, fetchVars, menuVars>>

(* ------------------------------------------------------------------ *)
(* The host listeners installed by beforeStartup                       *)
(* ------------------------------------------------------------------ *)

\* the text tool's state apart from the count of host events
toolState ==
    <<_typeChangedHandler, _layerCreatedHandler, _layerDeletedHandler,
      _toolModalStateChangedHandler, listeners, _layersReplaced, _layerDeleted,
      firstLaunch, toolOp, resetTypeToolRequests, deletedInSession>>

\* menuitem.js 1390-1562: the listeners are closures bound to the beforeStartup
\* invocation, which has resolved (line 1561) when the host's events arrive;
\* this.dispatch in a listener is a dispatch of that invocation
ListenerCommand(event) ==
    [LayerCommand("beforeStartup", document, <<>>, "undefined")
        EXCEPT !.origin = event, !.id = 0, !.stage = "resolved"]

\* menuitem.js 1445-1454: selectedLayer; the host has made layerID its selection
SelectedLayerEvent(layerID) ==
    /\ events < MaxHostEvents
    /\ document.id # 0 => layerID \in hostLayerIDs
    /\ dispatched' = Append(dispatched,
                            LayerEvent("SELECT_LAYERS_BY_ID", document.id, <<layerID>>, 0, 0,
                                       ListenerCommand("selectedLayer")))
    /\ document' = applySelectByID(document, {layerID})
    /\ hostSelected' = {layerID}
    /\ events' = events + 1
    /\ UNCHANGED <<hostLayerIDs, queue, transfers, logged, results>>
    /\ UNCHANGED <<floating, timers>>
    /\ UNCHANGED <<toolState, fetchVars, menuVars>>

\* menuitem.js 1458-1474: autoCanvasResizeShift; the positions TRANSLATE_LAYERS
\* changes are not kept here
AutoCanvasResizeShiftEvent ==
    /\ events < MaxHostEvents
    /\ dispatched' = IF document.id # 0
                     THEN Append(dispatched,
                                 LayerEvent("TRANSLATE_LAYERS", document.id,
                                            [i \in 1..Len(document.layers) |-> document.layers[i].id],
                                            0, 0, ListenerCommand("autoCanvasResizeShift")))
                     ELSE dispatched
    /\ events' = events + 1
    /\ UNCHANGED <<document, hostLayerIDs, queue, transfers, logged, results>>
    /\ UNCHANGED layerVars
    /\ UNCHANGED <<toolState, fetchVars, menuVars>>

deletesLayers_never(doc, target) == FALSE

\* menuitem.js 1518-1522: a current document and the target "layer"
deletesLayers(doc, target) == doc.id # 0 /\ target = "layer"

\* menuitem.js 1512-1544: delete; the host has deleted the layers of the event
DeleteEvent(target, layerIDs) ==
    /\ events < MaxHostEvents
    /\ document.id # 0 => Range(layerIDs) \subseteq hostLayerIDs
    /\ hostLayerIDs' = IF target = "layer" THEN hostLayerIDs \ Range(layerIDs) ELSE hostLayerIDs
    /\ hostSelected' = IF target = "layer" THEN hostSelected \ Range(layerIDs) ELSE hostSelected
    /\ IF deletesLayers(document, target)
       THEN /\ dispatched' = Append(dispatched,
                                    LayerEvent("DELETE_LAYERS", document.id, layerIDs, 0, 0,
                                               ListenerCommand("delete")))
            /\ document' = applyDeleteLayers(document, layerIDs)
            /\ floating' = Append(floating, [request |-> "targetLayers",
                                             command |-> ListenerCommand("delete")])
       ELSE UNCHANGED <<dispatched, document, floating>>
    /\ events' = events + 1
    /\ UNCHANGED <<queue, transfers, logged, results, timers>>
    /\ UNCHANGED <<toolState, fetchVars, menuVars>>

makeCommand_update(layerID) == "updateDocument"

\* menuitem.js 1409-1413: typeof event.layerID === "number"; 0 stands for an
\* event without a numeric layerID
makeCommand(layerID) == IF layerID # 0 THEN "addLayers" ELSE "updateDocument"

\* menuitem.js 1394-1424: make, for a new layer or, as a repeated
\* notification, for one the model holds. The headlights log entry is not
\* kept here
MakeEvent(target, layerID) ==
    /\ events < MaxHostEvents
    /\ hostLayerIDs' = IF target = "layer" /\ layerID # 0
                       THEN hostLayerIDs \cup {layerID}
                       ELSE hostLayerIDs
    /\ IF target # "layer"
       THEN UNCHANGED <<queue, logged>>
       ELSE IF document.id = 0
       THEN /\ logged' = logged \cup {<<"warn", "make">>}
            /\ UNCHANGED queue
       ELSE /\ queue' = Append(queue,
                               Command(makeCommand(layerID), "make", document,
                                       IF layerID # 0 THEN <<layerID>> ELSE <<>>,
                                       "undefined", "undefined", "undefined"))
            /\ UNCHANGED logged
    /\ events' = events + 1
    /\ UNCHANGED <<document, dispatched, transfers, results>>
    /\ UNCHANGED layerVars
    /\ UNCHANGED <<toolState, fetchVars, menuVars>>

\* menuitem.js 1426-1443: set
SetEvent(target) ==
    /\ events < MaxHostEvents
    /\ IF target # "textLayer"
       THEN UNCHANGED <<queue, logged>>
       ELSE IF document.id = 0
       THEN /\ logged' = logged \cup {<<"warn", "set">>}
            /\ UNCHANGED queue
       ELSE /\ queue' = Append(queue,
                               Command("resetLayers", "set", document, SelectedIDs(document),
                                       "undefined", "undefined", "undefined"))
            /\ UNCHANGED logged
    /\ events' = events + 1
    /\ UNCHANGED <<document, hostLayerIDs, dispatched, transfers, results>>
    /\ UNCHANGED layerVars
    /\ UNCHANGED <<toolState, fetchVars, menuVars>>

pathOperationResets_always(command) == TRUE

\* menuitem.js 1497: if (event.command === "pathChange")
pathOperationResets(command) == command = "pathChange"

\* menuitem.js 1493-1507: pathOperation; layerIDs are the ids of
\* _.rest(event.null.ref). Without a current document reading
\* currentDocument.layers throws
PathOperationEvent(command, layerIDs) ==
    /\ events < MaxEvents
    /\ IF ~pathOperationResets(command)
       THEN UNCHANGED <<queue, logged>>
       ELSE IF document.id = 0
       THEN /\ logged' = logged \cup {<<"throw", "pathOperation">>}
            /\ UNCHANGED queue
       ELSE /\ queue' = Append(queue,
                               Command("resetBounds", "pathOperation", document, layerIDs,
                                       "undefined", "undefined", "undefined"))
            /\ UNCHANGED logged
    /\ events' = events + 1
    /\ UNCHANGED <<document, hostLayerIDs, dispatched, transfers, results>>
    /\ UNCHANGED layerVars
    /\ UNCHANGED <<toolState, fetchVars, menuVars>>

\* menuitem.js 1476-1491: addTo, subtractFrom and interfaceWhite; the bounds
\* of the selected layers are reset
UpdateShapeLayerBoundsEvent ==
    /\ events < MaxEvents
    /\ IF document.id = 0
       THEN UNCHANGED queue
       ELSE queue' = Append(queue,
                            Command("resetBounds", "updateShapeLayerBounds", document,
                                    SelectedIDs(document), "undefined", "undefined", "undefined"))
    /\ events' = events + 1
    /\ UNCHANGED <<document, hostLayerIDs, dispatched, transfers, logged, results>>
    /\ UNCHANGED layerVars
    /\ UNCHANGED <<toolState, fetchVars, menuVars>>

\* documents.updateDocument called as a command of its own: one request to
\* the host for the document
StartUpdateDocument ==
    /\ queue # <<>>
    /\ queue[1].stage = "queued"
    /\ queue[1].kind = "updateDocument"
    /\ queue' = <<[queue[1] EXCEPT !.stage = "fetching", !.inflight = 1]>> \o Tail1(queue)
    /\ UNCHANGED <<document, hostLayerIDs, dispatched, transfers, logged, results>>
    /\ UNCHANGED <<toolVars, layerVars, fetchVars, menuVars>>

(* ------------------------------------------------------------------ *)
(* _getLayersByRef: the batched property fetch                         *)
(* ------------------------------------------------------------------ *)

_layerProperties ==
    <<"layerID", "name", "visible", "layerLocking", "itemIndex", "background",
      "boundsNoEffects", "opacity", "layerFXVisible", "mode">>

_optionalLayerProperties ==
    <<"adjustment", "AGMStrokeStyleInfo", "textKey", "layerKind", "keyOriginType",
      "fillEnabled", "fillOpacity", "layerEffects", "proportionalScaling", "artboard",
      "artboardEnabled", "pathBounds", "smartObject", "globalAngle">>

\* a JavaScript object: a function from its own keys to their values
EmptyObject == [p \in {} |-> <<>>]

\* result[property] = value
Put(obj, p, v) == [q \in DOMAIN obj \cup {p} |-> IF q = p THEN v ELSE obj[q]]

\* _.assign(target, source)
assign(target, source) ==
    [q \in DOMAIN target \cup DOMAIN source |->
        IF q \in DOMAIN source THEN source[q] ELSE target[q]]

\* references.reduce(... refs.concat(properties.map(...))): one request per
\* reference and property, reference-major
refObjs(references, properties) ==
    [pos \in 1..(Len(references) * Len(properties)) |->
        [reference |-> references[((pos - 1) \div Len(properties)) + 1],
         property  |-> properties[((pos - 1) % Len(properties)) + 1]]]

\* the value the host holds for one property of one layer
hostValue(request) == <<request.reference, request.property>>

\* descriptor.batchGetProperties(refObjs): one value per request, in request order
batchGetProperties(requests) == [pos \in 1..Len(requests) |-> hostValue(requests[pos])]

\* an entry of the optional response: null, or an object that holds the
\* property only when the layer has it
OptionalEntry(request, pos, missing) ==
    IF \E m \in missing : m.pos = pos /\ m.form = "null"
    THEN [isNull |-> TRUE, obj |-> EmptyObject]
    ELSE IF \E m \in missing : m.pos = pos /\ m.form = "lacking"
    THEN [isNull |-> FALSE, obj |-> EmptyObject]
    ELSE [isNull |-> FALSE,
          obj |-> Put(EmptyObject, request.property, hostValue(request))]

\* descriptor.batchGetProperties(refObjsOptional, { continueOnError: true }):
\* response[0] are the results, response[1] the errors
batchGetPropertiesContinueOnError(requests, missing) ==
    << [pos \in 1..Len(requests) |-> OptionalEntry(requests[pos], pos, missing)],
       [pos \in 1..Len(requests) |-> \E m \in missing : m.pos = pos] >>

propertyIndex_shifted(index, properties) == (index + 1) % Len(properties)

\* var propertyIndex = index % _layerProperties.length (index is 0-based)
propertyIndex(index, properties) == index % Len(properties)

\* if (propertyIndex === 0) { results.push({}); }
pushIfFirst(acc, index, properties) ==
    IF propertyIndex(index, properties) = 0 THEN Append(acc, EmptyObject) ELSE acc

\* one step of the required reduce: result[property] = value
requiredStep(acc, value, index) ==
    LET pushed == pushIfFirst(acc, index, _layerProperties)
        property == _layerProperties[propertyIndex(index, _layerProperties) + 1]
    IN  [pushed EXCEPT ![Len(pushed)] = Put(@, property, value)]

optionalAssign_null(result, property, value) ==
    IF ~value.isNull /\ property \in DOMAIN value.obj
    THEN Put(result, property, value.obj[property])
    ELSE Put(result, property, <<"null">>)

\* if (value && value.hasOwnProperty(property)) { result[property] = value[property]; }
optionalAssign(result, property, value) ==
    IF ~value.isNull /\ property \in DOMAIN value.obj
    THEN Put(result, property, value.obj[property])
    ELSE result

\* one step of the optional reduce
optionalStep(acc, value, index) ==
    LET pushed == pushIfFirst(acc, index, _optionalLayerProperties)
        property == _optionalLayerProperties[propertyIndex(index, _optionalLayerProperties) + 1]
    IN  [pushed EXCEPT ![Len(pushed)] = optionalAssign(@, property, value)]

RECURSIVE reduceRequired(_, _)
\* batchGetProperties(refObjs).reduce(function (results, value, index) {...}, [])
\* over the first n values
reduceRequired(values, n) ==
    IF n = 0 THEN <<>>
    ELSE requiredStep(reduceRequired(values, n - 1), values[n], n - 1)

RECURSIVE reduceOptional(_, _)
\* allResults.reduce(function (results, value, index) {...}, []) over the
\* first n values
reduceOptional(values, n) ==
    IF n = 0 THEN <<>>
    ELSE optionalStep(reduceOptional(values, n - 1), values[n], n - 1)

\* the callback of Promise.join: allProperties.map(... _.assign(properties,
\* allOptionalProperties[index]))
joinProperties(allProperties, allOptionalProperties) ==
    [index \in 1..Len(allProperties) |->
        assign(allProperties[index], allOptionalProperties[index])]

Pending == [state |-> "pending", value |-> <<>>]

Resolved(v) == [state |-> "resolved", value |-> v]

Rejected == [state |-> "rejected", value |-> <<>>]

\* the host answers the required batch
FetchRequiredReply ==
    /\ fetchRequired.state = "pending"
    /\ LET response == batchGetProperties(refObjs(fetchRefs, _layerProperties))
       IN  fetchRequired' = Resolved(reduceRequired(response, Len(response)))
    /\ UNCHANGED <<fetchRefs, fetchHost, fetchOptional, fetchResult>>
    /\ UNCHANGED <<docVars, toolVars, layerVars, menuVars>>

\* the host fails the required batch
FetchRequiredReject ==
    /\ fetchRequired.state = "pending"
    /\ fetchRequired' = Rejected
    /\ fetchHost' = [fetchHost EXCEPT !.failed = @ \cup {"required"}]
    /\ UNCHANGED <<fetchRefs, fetchOptional, fetchResult>>
    /\ UNCHANGED <<docVars, toolVars, layerVars, menuVars>>

\* the host answers the optional batch
FetchOptionalReply ==
    /\ fetchOptional.state = "pending"
    /\ LET response == batchGetPropertiesContinueOnError(
                           refObjs(fetchRefs, _optionalLayerProperties), fetchHost.missing)
           allResults == response[1]
       IN  fetchOptional' = Resolved(reduceOptional(allResults, Len(allResults)))
    /\ UNCHANGED <<fetchRefs, fetchHost, fetchRequired, fetchResult>>
    /\ UNCHANGED <<docVars, toolVars, layerVars, menuVars>>

\* the host fails the optional batch as a whole
FetchOptionalReject ==
    /\ fetchOptional.state = "pending"
    /\ fetchOptional' = Rejected
    /\ fetchHost' = [fetchHost EXCEPT !.failed = @ \cup {"optional"}]
    /\ UNCHANGED <<fetchRefs, fetchRequired, fetchResult>>
    /\ UNCHANGED <<docVars, toolVars, layerVars, menuVars>>

\* Promise.join: fulfilled once both promises are, rejected once one is
FetchJoin ==
    /\ fetchResult.state = "pending"
    /\ \/ /\ fetchRequired.state = "resolved"
          /\ fetchOptional.state = "resolved"
          /\ fetchResult' = Resolved(joinProperties(fetchRequired.value, fetchOptional.value))
       \/ /\ "rejected" \in {fetchRequired.state, fetchOptional.state}
          /\ fetchResult' = Rejected
    /\ UNCHANGED <<fetchRefs, fetchHost, fetchRequired, fetchOptional>>
    /\ UNCHANGED <<docVars, toolVars, layerVars, menuVars>>

(* ------------------------------------------------------------------ *)
(* MenuItem: fromDescriptor and updateSubmenuProps                     *)
(* ------------------------------------------------------------------ *)

\* A raw menu description. A property the description may lack is kept with
\* a flag (hasId, hasEnabled, hasSubmenu, hasShortcut); an empty keyChar or
\* keyCode is a missing or empty one, both falsy in the tests of lines 242-257;
\* modifiers is a set of <<name, value>> pairs, empty for a missing object
\* (rawMenu.shortcut.modifiers || {}, line 235)
RawShortcut(keyChar, keyCode, modifiers) ==
    [keyChar |-> keyChar, keyCode |-> keyCode, modifiers |-> modifiers]

RawItem(id) ==
    [separator |-> FALSE, hasId |-> TRUE, id |-> id, debug |-> FALSE,
     hasEnabled |-> FALSE, enabled |-> TRUE,
     hasSubmenu |-> FALSE, submenu |-> <<>>,
     hasShortcut |-> FALSE, shortcut |-> RawShortcut("", "", {})]

RawWithShortcut(raw, shortcut) == [raw EXCEPT !.hasShortcut = TRUE, !.shortcut = shortcut]

RawWithSubmenu(raw, submenu) == [raw EXCEPT !.hasSubmenu = TRUE, !.submenu = submenu]

\* adapter os.eventKeyCode: the key codes the host knows
eventKeyCode == [ENTER |-> 13, ESCAPE |-> 27]

\* adapter os.eventModifiers: one bit per modifier key
eventModifiers == [shift |-> 1, control |-> 2, alt |-> 4, command |-> 8]

\* js/util/key modifiersToBits: the bits of the modifiers set to true
modifiersToBits(modifiers) ==
    LET on(name) == IF <<name, TRUE>> \in modifiers THEN eventModifiers[name] ELSE 0
    IN  on("shift") + on("control") + on("alt") + on("command")

\* the submenu IDs for which nls.localize("menu." + id) has a $MENU label
MenuLabels == {<<"FILE">>, <<"FILE", "OPEN">>, <<"FILE", "CLOSE">>}

\* menuitem.js 155-163: _getLabelForSubmenu throws for a missing $MENU label
_getLabelForSubmenu(id) == IF id \in MenuLabels THEN <<"$MENU">> \o id ELSE <<"throw">>

\* menuitem.js 144-146
_getLabelForEntry(id) == <<"menu">> \o id

\* new MenuShortcut(rawShortcut); NullShortcut is the record's default null
NullShortcut == [modifiers |-> 0, keyChar |-> "", keyCode |-> 0, isNull |-> TRUE]

MenuShortcut(modifiers, keyChar, keyCode) ==
    [modifiers |-> modifiers, keyChar |-> keyChar, keyCode |-> keyCode, isNull |-> FALSE]

\* menuitem.js 43-97: the defaults of the MenuItem record. A null id, label or
\* command is the empty sequence; hasSubmenu tells a null submenu from a list
MenuItem ==
    [type |-> "null", id |-> <<>>, itemID |-> "null", label |-> <<>>,
     hasSubmenu |-> FALSE, submenu |-> <<>>, command |-> <<>>,
     commandKind |-> "null", shortcut |-> NullShortcut,
     enabled |-> TRUE, checked |-> FALSE]

Returned(item, shortcutTable) ==
    [thrown |-> "", item |-> item, shortcutTable |-> shortcutTable]

Thrown(message, shortcutTable) ==
    [thrown |-> message, item |-> MenuItem, shortcutTable |-> shortcutTable]

\* menuitem.js 246-255: the key of the shortcut table
shortcutTableKey(rawKeyChar, rawKeyCode) ==
    IF rawKeyChar # "" THEN <<"char", rawKeyChar>> ELSE <<"code", rawKeyCode>>

\* a conflict test that ignores the modifiers
shortcutConflict_anyModifiers(shortcutTable, key, rawModifierBits) ==
    \E entry \in shortcutTable : entry[1] = key

\* menuitem.js 261-269: shortcutTable[shortcutTableKey][rawModifierBits]
shortcutConflict(shortcutTable, key, rawModifierBits) ==
    <<key, rawModifierBits>> \in shortcutTable

\* menuitem.js 232-272: the shortcut of one entry, checked against the table
\* and entered into it
processShortcut(shortcut, shortcutTable) ==
    LET rawKeyChar == shortcut.keyChar
        rawKeyCode == shortcut.keyCode
        rawModifierBits == modifiersToBits(shortcut.modifiers)
        key == shortcutTableKey(rawKeyChar, rawKeyCode)
    IN  IF rawKeyChar # "" /\ rawKeyCode # ""
        THEN Thrown("Menu entry specifies both key char and code", shortcutTable)
        ELSE IF rawKeyChar = "" /\ rawKeyCode = ""
        THEN Thrown("Menu entry does not specify a key for its shortcut", shortcutTable)
        ELSE IF rawKeyChar = "" /\ rawKeyCode \notin DOMAIN eventKeyCode
        THEN Thrown("Menu entry specifies unknown key code", shortcutTable)
        ELSE IF shortcutConflict(shortcutTable, key, rawModifierBits)
        THEN Thrown("Menu entry shortcut duplicate", shortcutTable)
        ELSE Returned([MenuItem EXCEPT !.shortcut =
                          MenuShortcut(rawModifierBits, rawKeyChar,
                                       IF rawKeyChar = "" THEN eventKeyCode[rawKeyCode] ELSE 0)],
                      shortcutTable \cup {<<key, rawModifierBits>>})

RECURSIVE fromDescriptor(_, _, _, _)
RECURSIVE mapFromDescriptor(_, _, _, _)

\* menuitem.js 175-275: MenuItem.fromDescriptor(rawMenu, prefix, shortcutTable);
\* the empty prefix is the undefined one. The entries of the submenu are
\* processed before the entry's own shortcut
fromDescriptor(raw, prefix, shortcutTable, debugBuild) ==
    IF raw.separator
    THEN Returned([MenuItem EXCEPT !.type = "separator"], shortcutTable)
    ELSE IF ~raw.hasId
    THEN Thrown("Missing menu id", shortcutTable)
    ELSE
    LET id == prefix \o <<raw.id>>
        base == [MenuItem EXCEPT !.id = id, !.itemID = raw.id,
                                 !.enabled = IF raw.hasEnabled THEN raw.enabled ELSE @]
        rawSubMenu == IF debugBuild THEN raw.submenu
                      ELSE SelectSeq(raw.submenu, LAMBDA subMenu : ~subMenu.debug)
        sub == IF ~raw.hasSubmenu
               THEN [thrown |-> "", items |-> <<>>, shortcutTable |-> shortcutTable]
               ELSE IF _getLabelForSubmenu(id) = <<"throw">>
               THEN [thrown |-> "Missing label for menu", items |-> <<>>,
                     shortcutTable |-> shortcutTable]
               ELSE mapFromDescriptor(rawSubMenu, id, shortcutTable, debugBuild)
        labelled == IF raw.hasSubmenu
                    THEN [base EXCEPT !.label = _getLabelForSubmenu(id),
                                      !.hasSubmenu = TRUE, !.submenu = sub.items]
                    ELSE [base EXCEPT !.label = _getLabelForEntry(id), !.command = id]
        own == processShortcut(raw.shortcut, sub.shortcutTable)
    IN  IF sub.thrown # ""
        THEN Thrown(sub.thrown, sub.shortcutTable)
        ELSE IF ~raw.hasShortcut
        THEN Returned(labelled, sub.shortcutTable)
        ELSE IF own.thrown # ""
        THEN Thrown(own.thrown, own.shortcutTable)
        ELSE Returned([labelled EXCEPT !.shortcut = own.item.shortcut], own.shortcutTable)

\* menuitem.js 218-220: rawSubMenu.map(fromDescriptor) with the one shared
\* table, front to back, ended by the first throw
mapFromDescriptor(rawSubMenu, id, shortcutTable, debugBuild) ==
    IF rawSubMenu = <<>>
    THEN [thrown |-> "", items |-> <<>>, shortcutTable |-> shortcutTable]
    ELSE LET first == fromDescriptor(Head(rawSubMenu), id, shortcutTable, debugBuild)
             rest == mapFromDescriptor(Tail(rawSubMenu), id, first.shortcutTable, debugBuild)
         IN  IF first.thrown # ""
             THEN [thrown |-> first.thrown, items |-> <<>>,
                   shortcutTable |-> first.shortcutTable]
             ELSE IF rest.thrown # ""
             THEN rest
             ELSE [thrown |-> "", items |-> <<first.item>> \o rest.items,
                   shortcutTable |-> rest.shortcutTable]

\* menuitem.js 104-116: submenuMap, from itemID to index, separators left out;
\* a later entry with the same itemID replaces the earlier one. Only asked
\* for a menu with a submenu
submenuMap(menu) ==
    LET entries == {i \in 1..Len(menu.submenu) : menu.submenu[i].type # "separator"}
    IN  [itemID \in {menu.submenu[i].itemID : i \in entries} |->
            Max({i \in entries : menu.submenu[i].itemID = itemID})]

\* menuitem.js 126-134: the index byID looks up, -1 for an unknown ID
menuIndexOf(menu, menuID) ==
    IF menuID \in DOMAIN submenuMap(menu) THEN submenuMap(menu)[menuID] ELSE -1

\* Immutable Record merge: the fields of props replace those of the item
merge(item, props) ==
    [field \in DOMAIN item |-> IF field \in DOMAIN props THEN props[field] ELSE item[field]]

\* the entry next to the named one takes the properties
mergedIndex_next(menu, menuIndex) == IF menuIndex < Len(menu.submenu) THEN menuIndex + 1 ELSE 1

\* menuitem.js 347: the index written by setIn(["submenu", menuIndex], ...)
mergedIndex(menu, menuIndex) == menuIndex

\* menuitem.js 336-348: updateSubmenuProps. On a menu without submenu the
\* submenuMap is null and reading it throws a TypeError
updateSubmenuProps(menu, submenuID, props) ==
    IF ~menu.hasSubmenu
    THEN [thrown |-> "TypeError", item |-> MenuItem]
    ELSE IF menuIndexOf(menu, submenuID) < 0
    THEN [thrown |-> "Unable to find submenu with ID", item |-> MenuItem]
    ELSE LET menuIndex == menuIndexOf(menu, submenuID)
             nextMenuItem == merge(menu.submenu[menuIndex], props)
         IN  [thrown |-> "",
              item |-> [menu EXCEPT !.submenu[mergedIndex(menu, menuIndex)] = nextMenuItem]]

NotProcessed == [outcome |-> "none", error |-> "", menu |-> MenuItem, shortcutTable |-> {}]

NotUpdated ==
    [outcome |-> "none", error |-> "", receiver |-> MenuItem, submenuID |-> "",
     props |-> [checked |-> FALSE], menu |-> MenuItem]

InitMenuIdle ==
    /\ rawMenu = RawItem("")
    /\ __PG_DEBUG__ = FALSE
    /\ processed = NotProcessed
    /\ updated = NotUpdated

\* the menu store calls MenuItem.fromDescriptor(rawMenu) on the description
FromDescriptorCall ==
    /\ processed.outcome = "none"
    /\ LET result == fromDescriptor(rawMenu, <<>>, {}, __PG_DEBUG__)
       IN  processed' = [outcome |-> IF result.thrown = "" THEN "returned" ELSE "thrown",
                         error |-> result.thrown,
                         menu |-> result.item,
                         shortcutTable |-> result.shortcutTable]
    /\ UNCHANGED <<rawMenu, __PG_DEBUG__, updated>>
    /\ UNCHANGED <<docVars, toolVars, layerVars, fetchVars>>

\* a caller invokes receiver.updateSubmenuProps(submenuID, props) on the
\* processed menu or on one of its entries
UpdateSubmenuPropsCall(receiver, submenuID, props) ==
    /\ processed.outcome = "returned"
    /\ updated.outcome = "none"
    /\ LET result == updateSubmenuProps(receiver, submenuID, props)
       IN  updated' = [outcome |-> IF result.thrown = "" THEN "returned" ELSE "thrown",
                       error |-> result.thrown,
                       receiver |-> receiver,
                       submenuID |-> submenuID,
                       props |-> props,
                       menu |-> result.item]
    /\ UNCHANGED <<rawMenu, __PG_DEBUG__, processed>>
    /\ UNCHANGED <<docVars, toolVars, layerVars, fetchVars>>

(* ------------------------------------------------------------------ *)
(* Specifications                                                      *)
(* ------------------------------------------------------------------ *)

vars == <<document, hostLayerIDs, queue, dispatched, transfers, logged, results,
          _typeChangedHandler, _layerCreatedHandler, _layerDeletedHandler,
          _toolModalStateChangedHandler, listeners, _layersReplaced, _layerDeleted,
          firstLaunch, toolOp, resetTypeToolRequests, events, deletedInSession,
          floating, hostSelected, timers,
          fetchRefs, fetchHost, fetchRequired, fetchOptional, fetchResult,
          rawMenu, __PG_DEBUG__, processed, updated>>

InitFetchIdle ==
    /\ fetchRefs = <<>>
    /\ fetchHost = [missing |-> {}, failed |-> {}]
    /\ fetchRequired = Pending
    /\ fetchOptional = Pending
    /\ fetchResult = Pending

InitCommon ==
    /\ floating = <<>>
    /\ timers = <<>>
    /\ hostSelected = {document.layers[i].id : i \in selectedLayers(document)}
    /\ hostLayerIDs = LayerIDsOf(document)
    /\ queue = <<>>
    /\ dispatched = <<>>
    /\ transfers = <<>>
    /\ logged = {}
    /\ results = <<>>
    /\ _typeChangedHandler = FALSE
    /\ _layerCreatedHandler = FALSE
    /\ _layerDeletedHandler = FALSE
    /\ _toolModalStateChangedHandler = FALSE
    /\ listeners = [e \in ToolEvents |-> 0]
    /\ _layersReplaced = "false"
    /\ _layerDeleted = 0
    /\ firstLaunch = TRUE
    /\ toolOp = "idle"
    /\ resetTypeToolRequests = 0
    /\ events = 0
    /\ deletedInSession = FALSE

StartCommand ==
    \/ StartAddLayers
    \/ StartResetLayers
    \/ StartHandleDeletedLayer
    \/ StartHandleTypeModalStateCanceled

\* addLayers called directly on every kind of document
Init ==
    /\ document \in InitDocuments
    /\ InitCommon
    /\ InitMenuIdle
    /\ InitFetchIdle

Next ==
    \/ \E layerSpec \in NewLayerSpecs, selectedArg \in {"undefined", "false"},
          replaceArg \in {"undefined", "true", "false"} :
            AddLayersCall(layerSpec, selectedArg, replaceArg)
    \/ \E layerIndexes \in LayerIndexLists(document) : ResetLayersByIndexCall(layerIndexes)
    \/ StartAddLayers
    \/ StartResetLayersByIndex
    \/ HostResolve
    \/ HostReject

Spec == Init /\ [][Next]_vars

\* documents of a text-tool session: an empty canvas with or without an artboard
TypeDocuments ==
    { d \in InitDocuments :
        /\ Len(d.layers) \in {1, 3}
        /\ byID(d, 2) # 0
        /\ d.layers[byID(d, 2)].bounds = [present |-> TRUE, area |-> 0]
        /\ Len(d.layers) = 3 => hasArtboard(d) }

InitType ==
    /\ document \in TypeDocuments \cup {NoDocument}
    /\ InitCommon
    /\ InitMenuIdle
    /\ InitFetchIdle

NextType ==
    \/ ToolSelect
    \/ ToolDeselect
    \/ ToolHostResolve
    \/ ToolHostReject
    \/ \E layerID \in EventLayerIDs : CreateTextLayerEvent(layerID)
    \/ \E layerID \in EventLayerIDs : DeleteTextLayerEvent(layerID)
    \/ \E isTypeCancel \in BOOLEAN : ToolModalStateChangedEvent(isTypeCancel)
    \/ StartCommand
    \/ HostResolve
    \/ HostReject

SpecType == InitType /\ [][NextType]_vars

\* layer references a caller may pass: any list, repeats and any order included
FetchReferences ==
    UNION { [1..n -> 1..MaxRefs] : n \in 0..MaxRefs }

\* what the optional response may omit: at most one property of one item,
\* either as a null entry or as an object without the key
FetchMissing(references) ==
    {{}} \cup
    { {[pos |-> pos, form |-> form]} :
        pos \in 1..(Len(references) * Len(_optionalLayerProperties)),
        form \in {"null", "lacking"} }

\* _getLayersByRef called on every list of references
InitFetch ==
    /\ document = NoDocument
    /\ InitCommon
    /\ InitMenuIdle
    /\ fetchRefs \in FetchReferences
    /\ \E missing \in FetchMissing(fetchRefs) :
           fetchHost = [missing |-> missing, failed |-> {}]
    /\ fetchRequired = Pending
    /\ fetchOptional = Pending
    /\ fetchResult = Pending

NextFetch ==
    \/ FetchRequiredReply
    \/ FetchRequiredReject
    \/ FetchOptionalReply
    \/ FetchOptionalReject
    \/ FetchJoin

SpecFetch == InitFetch /\ [][NextFetch]_vars

\* a chain of n nested groups around layer 1, followed by the top-level layer 2
Chain(n) ==
    Doc([i \in 1..(2 * n + 2) |->
            IF i <= n THEN GroupStart(10 + i)
            ELSE IF i = n + 1 THEN Plain(1)
            ELSE IF i <= 2 * n + 1 THEN GroupEnd(30 + (2 * n + 2 - i))
            ELSE Plain(2)])

\* documents within the host's nesting limit: flat, and nested up to the
\* limit, with nothing, the innermost layer or the top-level layers selected
GroupDocuments ==
    UNION { { applySelectByIndex(Chain(n), S) : S \in {{}, {n + 1}, {1, 2 * n + 2}} } :
            n \in {0} \cup ((PS_MAX_NEST_DEPTH - 1)..(PS_MAX_NEST_DEPTH + 1)) }

InitGroup ==
    /\ document \in GroupDocuments
    /\ InitCommon
    /\ InitMenuIdle
    /\ InitFetchIdle

\* plain selections and groupSelected, one command at a time
NextGroup ==
    \/ SelectCall({"select"})
    \/ GroupSelectedCall
    \/ StartSelect
    \/ StartGroupSelected
    \/ HostResolveSelect
    \/ HostResolveGroupSelected
    \/ HostRejectPlay

SpecGroup == InitGroup /\ [][NextGroup]_vars

LockDocuments ==
    {Chain(0), [Chain(0) EXCEPT !.unsupported = TRUE]}

InitLocks ==
    /\ document \in LockDocuments
    /\ InitCommon
    /\ InitMenuIdle
    /\ InitFetchIdle

\* layer commands with every modifier, next to the text tool's commands
NextLocks ==
    \/ SelectCall({"select", "add"})
    \/ GroupSelectedCall
    \/ StartSelect
    \/ StartGroupSelected
    \/ HostResolveSelect
    \/ HostResolveGroupSelected
    \/ HostRejectPlay
    \/ FloatingResolve
    \/ FloatingReject
    \/ ToolSelect
    \/ ToolDeselect
    \/ ToolHostResolve
    \/ ToolHostReject

SpecLocks == InitLocks /\ [][NextLocks]_vars

\* a document of two layers, the lower one a background layer or not
OptimisticDocuments ==
    { Doc(<<Plain(1), [Plain(2) EXCEPT !.isBackground = bg]>>) : bg \in BOOLEAN }

InitOptimistic ==
    /\ document \in OptimisticDocuments
    /\ InitCommon
    /\ InitMenuIdle
    /\ InitFetchIdle

\* the commands that dispatch optimistically, the dispatch and the host's
\* answer in either order
NextOptimistic ==
    \/ \E kind \in OptimisticKinds, value \in BOOLEAN : OptimisticCall(kind, value)
    \/ StartOptimistic
    \/ TimerFires
    \/ HostResolveOptimistic
    \/ HostRejectOptimistic

SpecOptimistic == InitOptimistic /\ [][NextOptimistic]_vars

\* no document, an unsupported one, an empty one, a flat one (a single
\* background layer), and documents with more layers
SelectAllDocuments ==
    { NoDocument,
      [Doc(<<Plain(1)>>) EXCEPT !.unsupported = TRUE],
      Doc(<<>>),
      Doc(<<[Plain(1) EXCEPT !.isBackground = TRUE]>>),
      Doc(<<Plain(1)>>),
      Doc(<<Plain(2), [Plain(1) EXCEPT !.isBackground = TRUE]>>),
      Doc(<<[Plain(2) EXCEPT !.selected = TRUE], Plain(1)>>) }

InitSelectAll ==
    /\ document \in SelectAllDocuments
    /\ InitCommon
    /\ InitMenuIdle
    /\ InitFetchIdle

NextSelectAll ==
    \/ DeselectAllCall
    \/ SelectAllCall
    \/ StartDeselectAll
    \/ StartSelectAll
    \/ TimerFires
    \/ HostResolveOptimistic
    \/ HostRejectOptimistic
    \/ HostResolveSelect
    \/ HostRejectPlay

SpecSelectAll == InitSelectAll /\ [][NextSelectAll]_vars

\* layers the host may select or delete: the layers of the current document,
\* or layers of a document the application has not made current
HostLayerIDs == {1, 2}

\* layerID of a make event: none, a layer of the document, or a new layer
MadeLayerIDs == {0, 1} \cup NewLayerIDs

\* the running application: beforeStartup has resolved, its listeners are
\* installed, and selectAll is called while the host emits its events
ListenerDocuments == {NoDocument, Doc(<<[Plain(2) EXCEPT !.selected = TRUE], Plain(1)>>)}

InitListeners ==
    /\ document \in ListenerDocuments
    /\ InitCommon
    /\ InitMenuIdle
    /\ InitFetchIdle

NextListeners ==
    \/ SelectAllCall
    \/ StartSelectAll
    \/ HostResolveSelect
    \/ HostRejectPlay
    \/ \E layerID \in HostLayerIDs : SelectedLayerEvent(layerID)
    \/ AutoCanvasResizeShiftEvent
    \/ \E target \in {"layer", "channel"}, layerID \in HostLayerIDs : DeleteEvent(target, <<layerID>>)
    \/ \E target \in {"layer", "document"}, layerID \in MadeLayerIDs : MakeEvent(target, layerID)
    \/ \E target \in {"textLayer", "layer"} : SetEvent(target)
    \/ StartAddLayers
    \/ StartResetLayers
    \/ StartUpdateDocument
    \/ HostResolve
    \/ HostReject
    \/ FloatingResolve
    \/ FloatingReject

SpecListeners == InitListeners /\ [][NextListeners]_vars

\* two text-tool sessions on one document: the text tool's calls, the
\* deleteTextLayer event for the document's text layer and the modal state
\* notifications
SessionDocuments == {Doc(<<Plain(2), Plain(1)>>)}

InitSession ==
    /\ document \in SessionDocuments
    /\ InitCommon
    /\ InitMenuIdle
    /\ InitFetchIdle

NextSession ==
    \/ ToolSelectWithin(MaxSessionEvents)
    \/ ToolDeselectWithin(MaxSessionEvents)
    \/ ToolHostResolve
    \/ ToolHostReject
    \/ DeleteTextLayerEventWithin(MaxSessionEvents, 2)
    \/ \E isTypeCancel \in BOOLEAN : ToolModalStateChangedEventWithin(MaxSessionEvents, isTypeCancel)
    \/ StartHandleDeletedLayer
    \/ StartHandleTypeModalStateCanceled
    \/ HostResolve
    \/ HostReject

SpecSession == InitSession /\ [][NextSession]_vars

\* handleDeletedLayer called on its own, for a local layer and for unknown
\* ones, with every value of layersReplaced
InitHandleDeleted ==
    /\ document \in TypeDocuments \cup {NoDocument}
    /\ InitCommon
    /\ InitMenuIdle
    /\ InitFetchIdle

NextHandleDeleted ==
    \/ \E layerID \in EventLayerIDs, layersReplaced \in {"true", "false", "undefined"} :
           HandleDeletedLayerCall(layerID, layersReplaced)
    \/ StartHandleDeletedLayer
    \/ HostResolve
    \/ HostReject

SpecHandleDeleted == InitHandleDeleted /\ [][NextHandleDeleted]_vars

\* no document, an unsupported one, an empty one, and documents with no, one
\* or every layer selected
SkipDocuments ==
    { NoDocument,
      [Doc(<<[Plain(1) EXCEPT !.selected = TRUE]>>) EXCEPT !.unsupported = TRUE],
      Doc(<<>>),
      Doc(<<Plain(2), Plain(1)>>),
      Doc(<<[Plain(2) EXCEPT !.selected = TRUE], Plain(1)>>),
      Doc(<<Plain(2), [Plain(1) EXCEPT !.selected = TRUE, !.isBackground = TRUE]>>),
      Doc(<<[Plain(2) EXCEPT !.selected = TRUE], [Plain(1) EXCEPT !.selected = TRUE]>>) }

InitSkip ==
    /\ document \in SkipDocuments
    /\ InitCommon
    /\ InitMenuIdle
    /\ InitFetchIdle

\* groupSelected, deleteSelected and the commands on the current document
NextSkip ==
    \/ GroupSelectedCall
    \/ \E selectedLayersDeletable \in BOOLEAN : DeleteSelectedCall(selectedLayersDeletable)
    \/ GroupSelectedInCurrentDocumentCall
    \/ \E locked \in BOOLEAN : LockSelectedInCurrentDocumentCall(locked)
    \/ StartGroupSelected
    \/ StartDeleteSelected
    \/ StartGroupSelectedInCurrentDocument
    \/ StartLockSelectedInCurrentDocument
    \/ TimerFires
    \/ HostResolveOptimistic
    \/ HostRejectOptimistic
    \/ HostResolveGroupSelected
    \/ HostRejectPlay

SpecSkip == InitSkip /\ [][NextSkip]_vars

\* documents of three layers, the lowest one a background layer or not
ReorderDocuments ==
    { Doc(<<Plain(3), Plain(2), [Plain(1) EXCEPT !.isBackground = bg]>>) : bg \in BOOLEAN }

InitReorder ==
    /\ document \in ReorderDocuments
    /\ InitCommon
    /\ InitMenuIdle
    /\ InitFetchIdle

\* reorder called for one or two layers and every target index
NextReorder ==
    \/ \E layerSpec \in ReorderSpecs(document), targetIndex \in 0..Len(document.layers) :
           ReorderCall(layerSpec, targetIndex)
    \/ StartReorder
    \/ HostResolveReorder
    \/ HostRejectReorder

SpecReorder == InitReorder /\ [][NextReorder]_vars

\* layer IDs of a pathOperation event: layers of the document, and a layer
\* the local document does not hold
PathLayerIDs == {<<1>>, <<2>>, <<2, 1>>, <<3>>}

InitPath ==
    /\ document \in ListenerDocuments
    /\ InitCommon
    /\ InitMenuIdle
    /\ InitFetchIdle

\* the host's path and shape events; the resetBounds commands they call run
\* one after the other
NextPath ==
    \/ \E command \in {"pathChange", "newPath"}, layerIDs \in PathLayerIDs :
           PathOperationEvent(command, layerIDs)
    \/ UpdateShapeLayerBoundsEvent
    \/ StartResetBounds
    \/ HostResolve
    \/ HostReject

SpecPath == InitPath /\ [][NextPath]_vars

\* no document, and a document of two layers with a selection and a
\* background layer
LiveDocuments ==
    { NoDocument,
      Doc(<<[Plain(2) EXCEPT !.selected = TRUE], [Plain(1) EXCEPT !.isBackground = TRUE]>>) }

InitLive ==
    /\ document \in LiveDocuments
    /\ InitCommon
    /\ InitMenuIdle
    /\ InitFetchIdle

\* the commands and events of one run: the commands invoked and finished and
\* the events and tool calls made
LiveWork == Len(results) + Len(queue) + events

\* the layer commands a caller may invoke
LiveCall ==
    /\ Len(results) < MaxCalls
    /\ LiveWork <= MaxCalls
    /\ \/ SelectCall({"select", "add"})
       \/ GroupSelectedCall
       \/ SelectAllCall
       \/ DeselectAllCall
       \/ \E selectedLayersDeletable \in BOOLEAN : DeleteSelectedCall(selectedLayersDeletable)
       \/ GroupSelectedInCurrentDocumentCall
       \/ \E locked \in BOOLEAN : LockSelectedInCurrentDocumentCall(locked)
       \/ \E kind \in OptimisticKinds : OptimisticCall(kind, TRUE)
       \/ \E targetIndex \in {0, 2} : ReorderCall(<<1>>, targetIndex)
       \/ \E fromLayers \in {<<>>, <<2>>} : DuplicateCall(fromLayers)
       \/ AddLayersCall(<<6>>, "undefined", "undefined")

\* the events and tool calls the run still has room for
LiveEventLimit == MaxCalls + 1 - Len(results) - Len(queue)

\* the text tool's calls and the host's events for it
LiveToolEvent ==
    \/ ToolSelectWithin(LiveEventLimit)
    \/ ToolDeselectWithin(LiveEventLimit)
    \/ \E layerID \in {2, 7} : CreateTextLayerEventWithin(LiveEventLimit, layerID)
    \/ DeleteTextLayerEventWithin(LiveEventLimit, 2)
    \/ ToolModalStateChangedEventWithin(LiveEventLimit, TRUE)

\* the scheduler starts the command at the head of the queue
LiveStart ==
    \/ StartSelect
    \/ StartGroupSelected
    \/ StartSelectAll
    \/ StartDeselectAll
    \/ StartDeleteSelected
    \/ StartGroupSelectedInCurrentDocument
    \/ StartLockSelectedInCurrentDocument
    \/ StartOptimistic
    \/ StartReorder
    \/ StartDuplicate
    \/ StartAddLayers
    \/ StartResetLayers
    \/ StartHandleDeletedLayer
    \/ StartHandleTypeModalStateCanceled

\* the host answers the request a running command waits for
LiveHostAnswer ==
    \/ HostResolve
    \/ HostReject
    \/ HostResolveSelect
    \/ HostResolveGroupSelected
    \/ HostResolveDuplicate
    \/ HostRejectPlay
    \/ HostResolveOptimistic
    \/ HostRejectOptimistic
    \/ HostResolveReorder
    \/ HostRejectReorder

\* the host answers the request of a tool command
LiveToolAnswer == ToolHostResolve \/ ToolHostReject

\* the host answers a request no command waits for
LiveFloatingAnswer == FloatingResolve \/ FloatingReject

NextLive ==
    \/ LiveCall
    \/ LiveToolEvent
    \/ LiveStart
    \/ TimerFires
    \/ LiveHostAnswer
    \/ LiveToolAnswer
    \/ LiveFloatingAnswer

\* every host call is answered, the scheduler starts the command at the head
\* of its queue and the event loop runs the scheduled dispatches
SpecLive ==
    /\ InitLive
    /\ [][NextLive]_vars
    /\ WF_vars(LiveStart)
    /\ WF_vars(TimerFires)
    /\ WF_vars(LiveHostAnswer)
    /\ WF_vars(LiveToolAnswer)
    /\ WF_vars(LiveFloatingAnswer)

\* the longest submenu of a description
MaxSubmenu == 2

\* the itemIDs by position in a submenu
MenuIDs == <<"OPEN", "SAVE", "CLOSE">>

ShortcutChoices ==
    { RawShortcut("a", "", {}),
      RawShortcut("a", "", {<<"shift", TRUE>>}),
      RawShortcut("a", "", {<<"shift", FALSE>>}),
      RawShortcut("", "ENTER", {}),
      RawShortcut("", "ENTER", {<<"command", TRUE>>}),
      RawShortcut("", "F99", {}),
      RawShortcut("a", "ENTER", {}),
      RawShortcut("", "", {}) }

\* the entries a submenu may hold under the given id: plain items, items with
\* a shortcut, a separator, a debug-only item, an item without id, and
\* submenus of one item
RawEntries(id) ==
    {RawItem(id)}
    \cup {RawWithShortcut(RawItem(id), shortcut) : shortcut \in ShortcutChoices}
    \cup {[RawWithShortcut(RawItem(id), RawShortcut("a", "", {})) EXCEPT !.separator = TRUE],
          [RawWithShortcut(RawItem(id), RawShortcut("a", "", {})) EXCEPT !.debug = TRUE],
          [RawItem(id) EXCEPT !.hasId = FALSE],
          [RawItem(id) EXCEPT !.hasEnabled = TRUE, !.enabled = FALSE]}
    \cup {RawWithSubmenu(RawItem(id), <<RawWithShortcut(RawItem("ITEM"), shortcut)>>) :
              shortcut \in {RawShortcut("a", "", {}), RawShortcut("", "ENTER", {})}}
    \cup {RawWithShortcut(
              RawWithSubmenu(RawItem(id), <<RawWithShortcut(RawItem("ITEM"), RawShortcut("a", "", {}))>>),
              RawShortcut("a", "", {}))}

\* the submenus of n entries: the entry at position k has the k-th ID or,
\* again, the first one
RawSubmenus(n) ==
    {submenu \in [1..n -> UNION {RawEntries(MenuIDs[k]) : k \in 1..n}] :
        \A k \in 1..n : submenu[k].id \in {MenuIDs[1], MenuIDs[k]}}

RawMenus ==
    {RawItem("FILE")}
    \cup {RawWithSubmenu(RawItem("FILE"), submenu) :
              submenu \in UNION {RawSubmenus(n) : n \in 0..MaxSubmenu}}

SubmenuIDs == {"OPEN", "SAVE", "ITEM", "NONE"}

PropsChoices == {[enabled |-> FALSE], [checked |-> TRUE, label |-> <<"renamed">>]}

InitMenu ==
    /\ document = NoDocument
    /\ InitCommon
    /\ InitFetchIdle
    /\ rawMenu \in RawMenus
    /\ __PG_DEBUG__ \in BOOLEAN
    /\ processed = NotProcessed
    /\ updated = NotUpdated

NextMenu ==
    \/ FromDescriptorCall
    \/ \E receiver \in {processed.menu} \cup Range(processed.menu.submenu),
          submenuID \in SubmenuIDs, props \in PropsChoices :
           UpdateSubmenuPropsCall(receiver, submenuID, props)

SpecMenu == InitMenu /\ [][NextMenu]_vars

(* ------------------------------------------------------------------ *)
(* Properties of addLayers                                             *)
(* ------------------------------------------------------------------ *)

AddLayersEvents == {i \in 1..Len(dispatched) : dispatched[i].type = "ADD_LAYERS"}

NoReplaceFlag(e) == e.command.replaceArg = "undefined"

ZeroArea(layer) == layer.bounds.present /\ layer.bounds.area = 0

NonzeroArea(layer) == layer.bounds.present /\ layer.bounds.area # 0

\* the document of claim C1: no artboard, one layer, empty, not background, not selected
EmptyCanvas(doc) ==
    /\ ~hasArtboard(doc)
    /\ Len(doc.layers) = 1
    /\ ZeroArea(doc.layers[1])
    /\ ~doc.layers[1].isBackground
    /\ ~doc.layers[1].selected

\* C1: addLayers without a replace flag, with exactly one new layer ID, on a
\* document with no artboard whose only layer has zero bounds area, is not a
\* background layer and is not selected, dispatches ADD_LAYERS with replace true.
C1_EmptyCanvasIsReplaced ==
    \A i \in AddLayersEvents :
        LET e == dispatched[i] IN
        (NoReplaceFlag(e) /\ Len(e.command.layerSpec) = 1 /\ EmptyCanvas(e.command.document))
            => e.replace = "true"

\* C2: addLayers without a replace flag dispatches ADD_LAYERS with replace false
\* whenever more than one layer is added, or the document's single layer is a
\* background layer, or that layer has nonzero bounds area; the payload's
\* layerIDs are the requested IDs in every case.
C2_NoReplaceOnDeviation ==
    \A i \in AddLayersEvents :
        LET e   == dispatched[i]
            doc == e.command.document
        IN  NoReplaceFlag(e) =>
              /\ e.layerIDs = e.command.layerSpec
              /\ ( \/ Len(e.command.layerSpec) > 1
                   \/ /\ Len(doc.layers) = 1
                      /\ doc.layers[1].isBackground \/ NonzeroArea(doc.layers[1]) )
                 => e.replace = "false"

C2_Witness ==
    \E i \in AddLayersEvents :
        /\ NoReplaceFlag(dispatched[i])
        /\ Len(dispatched[i].command.document.layers) = 1
        /\ dispatched[i].command.document.layers[1].isBackground
        /\ ZeroArea(dispatched[i].command.document.layers[1])
        /\ dispatched[i].command.selected = "true"
        /\ dispatched[i].replace = "false"
        /\ dispatched[i].layerIDs = <<6>>

\* the placeholder of a document with an artboard is its layer 2 (menuitem.js 582)
ArtboardPlaceholderReplaceable(doc) ==
    /\ Len(doc.layers) = 3
    /\ byID(doc, 2) # 0
    /\ ZeroArea(doc.layers[byID(doc, 2)])
    /\ ~doc.layers[byID(doc, 2)].isBackground
    /\ doc.layers[byID(doc, 2)].selected

ResetByIndexRunning ==
    {i \in 1..Len(queue) : queue[i].kind = "resetLayersByIndex" /\ queue[i].stage = "fetching"}

\* C10 as stated: each layer index is converted to a host index by
\* subtracting 1 exactly when the document has no background layer, and is
\* left unchanged when the document has a background layer.
C10_ShiftWithoutBackground ==
    \A i \in ResetByIndexRunning :
        \A k \in 1..Len(queue[i].layerSpec) :
            queue[i].refs[k] = IF hasBackgroundLayer(queue[i].document)
                               THEN queue[i].layerSpec[k]
                               ELSE queue[i].layerSpec[k] - 1

\* C10 amended: each layer index is converted to a host index by subtracting
\* 1 exactly when the document has a background layer, and is left unchanged
\* when the document has no background layer.
C10_ShiftWithBackground ==
    \A i \in ResetByIndexRunning :
        /\ Len(queue[i].refs) = Len(queue[i].layerSpec)
        /\ \A k \in 1..Len(queue[i].layerSpec) :
              queue[i].refs[k] = IF hasBackgroundLayer(queue[i].document)
                                 THEN queue[i].layerSpec[k] - 1
                                 ELSE queue[i].layerSpec[k]

C10_Witness ==
    \E i \in ResetByIndexRunning :
        /\ hasBackgroundLayer(queue[i].document)
        /\ queue[i].layerSpec = <<1, 2>>
        /\ queue[i].refs = <<0, 1>>

AddReplacedPlaceholder(layerID, cmd) ==
    \E i \in AddLayersEvents :
        /\ i <= cmd.dispatchedBefore
        /\ dispatched[i].command.origin = "createTextLayer"
        /\ dispatched[i].layerIDs = <<layerID>>
        /\ dispatched[i].replace = "true"

\* C4: if the add flow started by a createTextLayer event for layer L replaced
\* a placeholder, a later deleteTextLayer event for L results in a full
\* document resync (updateDocument), not in a targeted removeLayers of L.
C4_ResyncAfterReplacedAdd ==
    [][ ( /\ Len(transfers') = Len(transfers) + 1
          /\ transfers'[Len(transfers')].from = "handleDeletedLayer"
          /\ AddReplacedPlaceholder(transfers'[Len(transfers')].layerID, queue[1]) )
        => transfers'[Len(transfers')].to = "updateDocument" ]_vars


(* ------------------------------------------------------------------ *)
(* Properties of the batched property fetch                            *)
(* ------------------------------------------------------------------ *)

\* the raw answer of the host to the required batch
RequiredResponse == batchGetProperties(refObjs(fetchRefs, _layerProperties))

RequiredKeys == Range(_layerProperties)

\* item and property of the optional response the host left out
OmittedPairs ==
    { <<((m.pos - 1) \div Len(_optionalLayerProperties)) + 1,
        _optionalLayerProperties[((m.pos - 1) % Len(_optionalLayerProperties)) + 1]>> :
        m \in fetchHost.missing }

\* C7: a fulfilled fetch for N references returns exactly N objects in input
\* order; object i holds every required property k with the value the host
\* returned at flattened position i*K+k (0-based), which is the host's value
\* of that property for reference i.
C7_ZipPreservesOrder ==
    fetchResult.state = "resolved" =>
        /\ Len(fetchResult.value) = Len(fetchRefs)
        /\ \A i \in 1..Len(fetchRefs) : \A k \in 1..Len(_layerProperties) :
            /\ _layerProperties[k] \in DOMAIN fetchResult.value[i]
            /\ fetchResult.value[i][_layerProperties[k]] =
                   RequiredResponse[(i - 1) * Len(_layerProperties) + k]
            /\ fetchResult.value[i][_layerProperties[k]] =
                   <<fetchRefs[i], _layerProperties[k]>>

\* two different references fetched, the larger first, and the fetch fulfilled
C7_Witness ==
    /\ fetchResult.state = "resolved"
    /\ Len(fetchRefs) = 2
    /\ fetchRefs[1] > fetchRefs[2]
    /\ fetchResult.value[2]["mode"] = <<fetchRefs[2], "mode">>

\* C8: when the optional response leaves out property P of item j, the
\* optional batch is still fulfilled, and the object a fulfilled fetch returns
\* for item j has no key P, while every item holds every required key.
C8_OmittedOptionalHasNoKey ==
    /\ (fetchHost.missing # {} /\ fetchOptional.state = "rejected")
           => "optional" \in fetchHost.failed
    /\ fetchResult.state = "resolved" =>
        /\ \A pair \in OmittedPairs : pair[2] \notin DOMAIN fetchResult.value[pair[1]]
        /\ \A i \in 1..Len(fetchRefs) : RequiredKeys \subseteq DOMAIN fetchResult.value[i]

\* the host answered null for one optional property of the second of two
\* items, the fetch is fulfilled and the other optional keys are there
C8_Witness ==
    /\ fetchResult.state = "resolved"
    /\ Len(fetchRefs) = 2
    /\ \E pair \in OmittedPairs :
        /\ pair[1] = 2
        /\ \E m \in fetchHost.missing : m.form = "null"
        /\ pair[2] \notin DOMAIN fetchResult.value[2]
        /\ pair[2] \in DOMAIN fetchResult.value[1]
        /\ Cardinality(DOMAIN fetchResult.value[2]) =
               Len(_layerProperties) + Len(_optionalLayerProperties) - 1


(* ------------------------------------------------------------------ *)
(* Properties of groupSelected                                         *)
(* ------------------------------------------------------------------ *)

\* grouping the selected layers of the document would leave a group nested
\* deeper than the host allows
WouldExceedNestDepth(doc) ==
    /\ selectedLayers(doc) # {}
    /\ groupNestingDepth(applyGroupSelected(doc, 98, 99)) > PS_MAX_NEST_DEPTH

\* the groupSelected command at the head of the queue is about to run
GroupSelectedRuns ==
    /\ queue # <<>>
    /\ queue[1].kind = "groupSelected"
    /\ queue[1].stage = "queued"
    /\ queue' # queue

GroupSelectedEvents == {i \in 1..Len(dispatched) : dispatched[i].type = "GROUP_SELECTED"}

HostCallsInFlight ==
         { [command |-> queue[i].id, kind |-> queue[i].kind, writes |-> writes(queue[i].kind)] :
             i \in {j \in 1..Len(queue) : queue[j].inflight > 0} }
    \cup { [command |-> floating[i].command.id, kind |-> floating[i].command.kind,
            writes |-> writes(floating[i].command.kind)] : i \in 1..Len(floating) }
    \cup { [command |-> 0, kind |-> "tool.type.select", writes |-> writes("tool.type.select")] :
             x \in {toolOp} \cap {"setSuppressTargetPaths", "resetTypeTool"} }
    \cup { [command |-> 0, kind |-> "tool.type.deselect", writes |-> writes("tool.type.deselect")] :
             x \in {toolOp} \cap {"clearSuppressTargetPaths"} }

\* C9: two commands that declare overlapping write locks never have host
\* calls in flight at the same time, follow-up queries included.
C9_OverlappingWritersExcluded ==
    \A a, b \in HostCallsInFlight :
        a.command # b.command => a.writes \cap b.writes = {}

\* commands with disjoint write locks do have host calls in flight together
C9_DisjointOverlap ==
    \E a, b \in HostCallsInFlight :
        /\ a.command # b.command
        /\ a.writes # {}
        /\ b.writes # {}
        /\ a.writes \cap b.writes = {}

(* ------------------------------------------------------------------ *)
(* Properties of the commands with an optimistic dispatch              *)
(* ------------------------------------------------------------------ *)

\* positions in the event log of the events dispatched for invocation id
EventsOf(id) == {j \in 1..Len(dispatched) : dispatched[j].command.id = id}

\* C12: rename, setVisibility, setLocking, setOpacity, setBlendMode and
\* setProportional resolve only after both the optimistic dispatch and the
\* host request have completed, whichever of the two finishes first.
C12_ResolvesAfterBoth ==
    \A i \in 1..Len(results) :
        (results[i].command.kind \in OptimisticKinds /\ results[i].outcome = "resolved") =>
            /\ results[i].command.host = "resolved"
            /\ results[i].command.asyncDispatch = "done"
            /\ \E j \in EventsOf(results[i].command.id) :
                   dispatched[j].type = optimisticEventType(results[i].command.kind)

\* a command resolved whose host request had been answered before its dispatch ran
C12_Witness ==
    \E i \in 1..Len(results) :
        /\ results[i].command.kind = "setProportional"
        /\ results[i].outcome = "resolved"
        /\ results[i].command.hostFirst
        /\ EventsOf(results[i].command.id) # {}

\* C14: when the host rejects the request of rename, setVisibility,
\* setLocking, setOpacity or setBlendMode, the command rejects; its optimistic
\* event is dispatched all the same (once its scheduled dispatch has run) and
\* no other event is dispatched to undo it.
C14_RejectKeepsOptimisticEvent ==
    \A i \in 1..Len(results) :
        (/\ results[i].command.kind \in OptimisticKinds \ {"setProportional"}
         /\ results[i].command.host = "rejected") =>
            /\ results[i].outcome = "rejected"
            /\ \A j \in EventsOf(results[i].command.id) :
                   dispatched[j].type = optimisticEventType(results[i].command.kind)
            /\ \/ \E k \in 1..Len(timers) : timers[k].command = results[i].command.id
               \/ Cardinality(EventsOf(results[i].command.id)) = 1

\* setLocking was rejected by the host and its LOCK_CHANGED event is in the log
C14_Witness ==
    \E i \in 1..Len(results) :
        /\ results[i].command.kind = "setLocking"
        /\ results[i].command.host = "rejected"
        /\ results[i].outcome = "rejected"
        /\ timers = <<>>
        /\ \E j \in EventsOf(results[i].command.id) : dispatched[j].type = "LOCK_CHANGED"

(* ------------------------------------------------------------------ *)
(* Properties of select                                                *)
(* ------------------------------------------------------------------ *)

\* C13: a select with a modifier other than plain select has not resolved
\* before its targetLayers query has returned and the SELECT_LAYERS_BY_INDEX
\* event that follows from it has been dispatched.
C13_ResolvesAfterFollowUp ==
    \A i \in 1..Len(results) :
        (/\ results[i].command.kind = "select"
         /\ ~plainSelect(results[i].command.modifier)
         /\ ~results[i].command.document.unsupported
         /\ results[i].outcome = "resolved") =>
            \E j \in 1..Len(dispatched) :
                /\ dispatched[j].type = "SELECT_LAYERS_BY_INDEX"
                /\ dispatched[j].command.id = results[i].command.id

\* the host rejects the follow-up query at the head of floating: the query
\* leaves and nothing is dispatched for it
FollowUpRejected ==
    /\ floating # <<>>
    /\ floating' = Tail1(floating)
    /\ dispatched' = dispatched

\* C15: when the host rejects a call a layer command has issued, its main
\* request or a follow-up query, the command's result is rejected: no
\* rejection is dropped.
C15_RejectionReachesResult ==
    [][ FollowUpRejected =>
            \E i \in 1..Len(results') :
                /\ results'[i].command.id = floating[1].command.id
                /\ results'[i].outcome = "rejected" ]_vars

(* ------------------------------------------------------------------ *)
(* Properties of selectAll and deselectAll                             *)
(* ------------------------------------------------------------------ *)

\* there is no document, or its only layer is a background layer
NoneOrFlat(doc) ==
    \/ doc.id = 0
    \/ Len(doc.layers) = 1 /\ doc.layers[1].isBackground

\* the command of the given kind at the head of the queue is about to run
\* on no document or on a flat one
RunsOnNoneOrFlat(kind) ==
    /\ queue # <<>>
    /\ queue[1].kind = kind
    /\ queue[1].stage = "queued"
    /\ NoneOrFlat(queue[1].document)
    /\ queue' # queue

\* the step resolves the running command and does nothing else
ResolvesAsNoOp ==
    /\ queue' = Tail1(queue)
    /\ results' = Append(results, Result(queue[1], "resolved", "undefined"))
    /\ dispatched' = dispatched
    /\ timers' = timers
    /\ floating' = floating
    /\ transfers' = transfers
    /\ document' = document

\* C16: without a document, or on a flat document, deselectAll resolves with
\* no host request and no dispatch.
C16_DeselectAllNoOp ==
    [][ RunsOnNoneOrFlat("deselectAll") => ResolvesAsNoOp ]_vars

\* deselectAll has resolved on a flat document, and on no document
C16_Witness ==
    /\ Len(results) = 2
    /\ \A i \in 1..2 : results[i].command.kind = "deselectAll" /\ results[i].outcome = "resolved"
    /\ dispatched = <<>>
    /\ \/ document.id = 0
       \/ Len(document.layers) = 1 /\ document.layers[1].isBackground

\* C17: without a document, or on a flat document, selectAll resolves with no
\* host request and no dispatch.
C17_SelectAllNoOp ==
    [][ RunsOnNoneOrFlat("selectAll") => ResolvesAsNoOp ]_vars

(* ------------------------------------------------------------------ *)
(* Properties of the transfers                                         *)
(* ------------------------------------------------------------------ *)

\* the transfers the commands have performed, and the transfer calls of
\* the source, as <<caller, target>>
AllTransfers ==
    transferCalls \cup { <<transfers[i].from, transfers[i].to>> : i \in 1..Len(transfers) }

HostEvents == {"selectedLayer", "autoCanvasResizeShift", "delete", "make", "set"}

\* the events this step dispatches in response to a host event
NewHostEventDispatches ==
    { i \in (Len(dispatched) + 1)..Len(dispatched') :
        dispatched'[i].command.origin \in HostEvents }

\* the command that runs holds the local document's write lock and is the
\* one the event was dispatched by
DispatchedUnderLock(event) ==
    /\ queue # <<>>
    /\ queue[1].stage # "queued"
    /\ "JS_DOC" \in writes(queue[1].kind)
    /\ queue[1].kind = event.command.kind
    /\ queue[1].origin = event.command.origin

\* C19: every dispatch made in response to a host event is made by a running
\* command that holds the JS_DOC write lock.
C19_ListenerDispatchHoldsLock ==
    [][ \A i \in NewHostEventDispatches : DispatchedUnderLock(dispatched'[i]) ]_vars

(* ------------------------------------------------------------------ *)
(* Properties of the text tool's listeners                             *)
(* ------------------------------------------------------------------ *)

\* this step is a call of the text tool's select, or of its deselect
ToolSelectStep == toolOp = "idle" /\ toolOp' = "setSuppressTargetPaths"

ToolDeselectStep == toolOp = "idle" /\ toolOp' = "clearSuppressTargetPaths"

\* C20: each of the four host events has at most one registered text-tool
\* handler, exactly one after a select and none after a deselect; no other
\* step changes the registrations.
C20_OneHandlerPerEvent ==
    [][ /\ \A e \in ToolEvents : listeners'[e] <= 1
        /\ ToolSelectStep => \A e \in ToolEvents : listeners'[e] = 1
        /\ ToolDeselectStep => \A e \in ToolEvents : listeners'[e] = 0
        /\ ~ToolSelectStep /\ ~ToolDeselectStep => listeners' = listeners ]_vars

\* select has just been called again after an earlier select had completed
C20_Witness ==
    /\ toolOp = "setSuppressTargetPaths"
    /\ ~firstLaunch
    /\ \A e \in ToolEvents : listeners[e] = 1

(* ------------------------------------------------------------------ *)
(* Properties of the text tool's session flags                         *)
(* ------------------------------------------------------------------ *)

\* C21: after the text tool's deselect the session flags are cleared:
\* _layersReplaced is false and no deleted layer ID is recorded.
C21_DeselectClearsFlags ==
    [][ ToolDeselectStep => Truthy(_layersReplaced') = FALSE /\ _layerDeleted' = 0 ]_vars


\* the host emits deleteTextLayer; the host emits a type-tool cancel
\* notification (tool txBx, state exit, reason cancel)
DeleteTextLayerStep == DeleteTextLayerEventWithin(MaxSessionEvents, 2)

TypeCancelStep == ToolModalStateChangedEventWithin(MaxSessionEvents, TRUE)

\* the step calls handleTypeModalStateCanceled, whose command joins the queue
ResetRequested ==
    /\ Len(queue') = Len(queue) + 1
    /\ queue'[Len(queue')].kind = "handleTypeModalStateCanceled"

\* C22: a deleteTextLayer event records the layer; the next type-tool cancel
\* requests no reset and consumes the record, so the cancel after it requests
\* the reset; nothing else touches the record.
C22_CancelAfterDeleteSuppressedOnce ==
    [][ /\ DeleteTextLayerStep => _layerDeleted' # 0
        /\ TypeCancelStep /\ _layerDeleted # 0 => queue' = queue /\ _layerDeleted' = 0
        /\ TypeCancelStep /\ _layerDeleted = 0 => ResetRequested /\ _layerDeleted' = 0
        /\ ~DeleteTextLayerStep /\ ~TypeCancelStep => _layerDeleted' = _layerDeleted ]_vars

\* deleteTextLayer, a suppressed cancel and a second cancel that requested
\* the reset
C22_Witness ==
    /\ events = 4
    /\ _layerDeleted = 0
    /\ Len(queue) = 2
    /\ queue[1].origin = "deleteTextLayer"
    /\ queue[2].kind = "handleTypeModalStateCanceled"


\* C23: a type-tool cancel notification in a session in which no
\* deleteTextLayer event has arrived requests the reset of the selected
\* layers, whatever happened in earlier sessions.
C23_CancelWithoutDeleteResets ==
    [][ TypeCancelStep /\ ~deletedInSession => ResetRequested ]_vars

(* ------------------------------------------------------------------ *)
(* Properties of handleDeletedLayer                                    *)
(* ------------------------------------------------------------------ *)

\* the step appends exactly the one transfer from handleDeletedLayer
TransfersTo(target, layerID) ==
    transfers' = Append(transfers, Transfer("handleDeletedLayer", target, layerID))

\* C24: handleDeletedLayer throws without a current document; it transfers
\* to updateDocument when layersReplaced is true or the event's layer is not
\* in the local model, and otherwise to removeLayers for the event's layer;
\* it makes one transfer at most.
C24_HandleDeletedLayerBranches ==
    [][ StartHandleDeletedLayer =>
          LET cmd     == queue[1]
              layerID == cmd.layerSpec[1]
          IN  IF document.id = 0
              THEN /\ transfers' = transfers
                   /\ dispatched' = dispatched
                   /\ <<"throw", "handleDeletedLayer">> \in logged'
                   /\ results' = Append(results, Result(cmd, "rejected", "undefined"))
              ELSE IF cmd.layersReplaced = "true" \/ layerID \notin LayerIDsOf(document)
              THEN TransfersTo("updateDocument", layerID)
              ELSE /\ TransfersTo("removeLayers", layerID)
                   /\ LayerIDsOf(document') = LayerIDsOf(document) \ {layerID} ]_vars

\* handleDeletedLayer has resynchronised the document for a layer the model
\* holds, because layersReplaced was true
C24_Witness ==
    \E i \in 1..Len(results) :
        /\ results[i].command.kind = "updateDocument"
        /\ results[i].command.layersReplaced = "true"
        /\ results[i].command.layerSpec[1] \in LayerIDsOf(results[i].command.document)
        /\ transfers = <<Transfer("handleDeletedLayer", "updateDocument", results[i].command.layerSpec[1])>>

(* ------------------------------------------------------------------ *)
(* Properties of the layer-created handlers                            *)
(* ------------------------------------------------------------------ *)

\* the events this step dispatches
NewDispatches == { dispatched'[i] : i \in (Len(dispatched) + 1)..Len(dispatched') }

\* C25: a createTextLayer event for a layer the local model already holds
\* requests the reset of that layer, starts no add flow and leaves
\* _layersReplaced as it is; no ADD_LAYERS of the text tool names a layer
\* that was in the model when its event arrived.
C25_KnownTextLayerIsReset ==
    [][ /\ \A layerID \in EventLayerIDs :
              ( /\ CreateTextLayerEvent(layerID)
                /\ document.id # 0
                /\ layerID \in LayerIDsOf(document) )
              => /\ Len(queue') = Len(queue) + 1
                 /\ queue'[Len(queue')].kind = "resetLayers"
                 /\ queue'[Len(queue')].layerSpec = <<layerID>>
                 /\ SubSeq(queue', 1, Len(queue)) = queue
                 /\ _layersReplaced' = _layersReplaced
                 /\ dispatched' = dispatched
        /\ \A e \in NewDispatches :
              e.type = "ADD_LAYERS" /\ e.command.origin = "createTextLayer"
              => e.layerIDs[1] \notin LayerIDsOf(e.command.document) ]_vars

\* after an add flow has left undefined in _layersReplaced, a second
\* createTextLayer for the added layer has requested its reset
C25_Witness ==
    /\ _layersReplaced = "undefined"
    /\ queue # <<>>
    /\ queue[Len(queue)].kind = "resetLayers"
    /\ queue[Len(queue)].origin = "createTextLayer"
    /\ queue[Len(queue)].layerSpec[1] \in LayerIDsOf(queue[Len(queue)].document)


\* the make listener handles an event for a layer while a document is current
MakeLayerStep(layerID) == MakeEvent("layer", layerID) /\ document.id # 0

\* the command the step has put at the end of the queue
Requested == queue'[Len(queue')]

\* C26 as stated: a make event for a layer the local model already holds
\* requests the reset of that layer and no add; only an unknown ID is added.
C26_KnownMadeLayerIsReset ==
    [][ \A layerID \in MadeLayerIDs \ {0} :
          MakeLayerStep(layerID) =>
              /\ Len(queue') = Len(queue) + 1
              /\ Requested.layerSpec = <<layerID>>
              /\ Requested.kind = IF layerID \in LayerIDsOf(document)
                                  THEN "resetLayers"
                                  ELSE "addLayers" ]_vars

\* C26, amended: a make event for a layer with a numeric layerID runs the
\* add-layer flow for that ID whether or not the local model holds the
\* layer, and one without a numeric layerID requests a document update; the
\* listener never requests a reset.
C26_MadeLayerIsAdded ==
    [][ \A layerID \in MadeLayerIDs :
          MakeLayerStep(layerID) =>
              /\ Len(queue') = Len(queue) + 1
              /\ SubSeq(queue', 1, Len(queue)) = queue
              /\ Requested.origin = "make"
              /\ Requested.kind = IF layerID # 0 THEN "addLayers" ELSE "updateDocument"
              /\ Requested.layerSpec = IF layerID # 0 THEN <<layerID>> ELSE <<>>
              /\ dispatched' = dispatched ]_vars

\* the add-layer flow started by a make event for a layer of the model has
\* dispatched ADD_LAYERS for it
C26_Witness ==
    \E i \in 1..Len(dispatched) :
        /\ dispatched[i].type = "ADD_LAYERS"
        /\ dispatched[i].command.origin = "make"
        /\ dispatched[i].layerIDs[1] \in LayerIDsOf(dispatched[i].command.document)


\* the events of the delete listener in the event log
DeleteListenerEvents(type) ==
    { i \in 1..Len(dispatched) :
        dispatched[i].type = type /\ dispatched[i].command.origin = "delete" }

\* C27: a delete event for a layer, with a current document, dispatches
\* DELETE_LAYERS for the event's layers at once and issues the targetLayers
\* query; SELECT_LAYERS_BY_INDEX is dispatched when that query is answered,
\* after the DELETE_LAYERS, and carries the indices of the host's selection.
C27_DeleteThenSelection ==
    [][ /\ \A layerID \in LayerIDsOf(document) \cup hostLayerIDs :
              DeleteEvent("layer", <<layerID>>) /\ document.id # 0
              => /\ Len(dispatched') = Len(dispatched) + 1
                 /\ dispatched'[Len(dispatched')].type = "DELETE_LAYERS"
                 /\ dispatched'[Len(dispatched')].layerIDs = <<layerID>>
                 /\ dispatched'[Len(dispatched')].documentID = document.id
                 /\ Len(floating') = Len(floating) + 1
        /\ \A e \in NewDispatches :
              e.type = "SELECT_LAYERS_BY_INDEX" /\ e.command.origin = "delete"
              => /\ floating # <<>>
                 /\ floating[1].command.origin = "delete"
                 /\ Cardinality(DeleteListenerEvents("DELETE_LAYERS"))
                        > Cardinality(DeleteListenerEvents("SELECT_LAYERS_BY_INDEX"))
                 /\ Range(e.layerIDs) =
                        {i \in 1..Len(document.layers) : document.layers[i].id \in hostSelected} ]_vars

\* layer 1 was deleted in the host; DELETE_LAYERS and then the host's
\* selection, layer 2 at index 1, have been dispatched
C27_Witness ==
    /\ Len(dispatched) = 2
    /\ dispatched[1].type = "DELETE_LAYERS"
    /\ dispatched[1].layerIDs = <<1>>
    /\ dispatched[2].type = "SELECT_LAYERS_BY_INDEX"
    /\ dispatched[2].command.origin = "delete"
    /\ dispatched[2].layerIDs = <<1>>
    /\ hostSelected = {2}

(* ------------------------------------------------------------------ *)
(* Properties of the events that arrive without a current document     *)
(* ------------------------------------------------------------------ *)

\* a host event of the startup listeners that needs a document
DocumentEventStep ==
    \/ \E layerID \in MadeLayerIDs : MakeEvent("layer", layerID)
    \/ SetEvent("textLayer")
    \/ \E layerID \in HostLayerIDs : DeleteEvent("layer", <<layerID>>)

\* C28: a host event that needs a document and arrives while there is none
\* is logged or thrown, and causes no dispatch and no host request.
C28_NoDocumentIsReported ==
    [][ DocumentEventStep /\ document.id = 0
        => /\ logged' # logged
           /\ dispatched' = dispatched
           /\ queue' = queue
           /\ floating' = floating ]_vars


\* C29: every dispatched event carries the ID of a document; none is
\* dispatched with a null documentID (0 stands for null).
C29_EventsCarryDocumentID ==
    \A i \in 1..Len(dispatched) : dispatched[i].documentID # 0

(* ------------------------------------------------------------------ *)
(* Properties of the one-time type style reset                         *)
(* ------------------------------------------------------------------ *)

\* C30: the resetTypeTool request is sent at most once, by the first select
\* whose setSuppressTargetPaths call succeeded; a failed
\* setSuppressTargetPaths leaves the request to a later select, and once the
\* request has been sent it is never sent again, even when it failed.
C30_TypeToolResetOnce ==
    [][ /\ resetTypeToolRequests' <= 1
        /\ ToolHostResolve /\ toolOp = "setSuppressTargetPaths" /\ firstLaunch
           => /\ resetTypeToolRequests = 0
              /\ resetTypeToolRequests' = 1
              /\ toolOp' = "resetTypeTool"
        /\ resetTypeToolRequests' # resetTypeToolRequests
           => toolOp = "setSuppressTargetPaths" /\ firstLaunch /\ ~firstLaunch'
        /\ ToolHostReject /\ toolOp = "setSuppressTargetPaths" /\ firstLaunch
           => firstLaunch' /\ resetTypeToolRequests' = 0
        /\ ~firstLaunch => ~firstLaunch' /\ resetTypeToolRequests' = resetTypeToolRequests ]_vars

\* a later select is in flight after the request was sent once
C30_Witness ==
    /\ resetTypeToolRequests = 1
    /\ ~firstLaunch
    /\ toolOp = "setSuppressTargetPaths"
    /\ events >= 2

(* ------------------------------------------------------------------ *)
(* Properties of the commands that skip their work                     *)
(* ------------------------------------------------------------------ *)

\* the command at the head of the queue is about to run in one of the states
\* in which it has nothing to do
RunsWithNothingToDo ==
    /\ queue # <<>>
    /\ queue[1].stage = "queued"
    /\ queue' # queue
    /\ \/ /\ queue[1].kind = "groupSelected"
          /\ selectedLayers(queue[1].document) = {}
       \/ /\ queue[1].kind = "deleteSelected"
          /\ \/ queue[1].document.id = 0
             \/ queue[1].document.unsupported
             \/ Len(queue[1].document.layers) = 0
             \/ ~queue[1].value
       \/ /\ queue[1].kind \in {"groupSelectedInCurrentDocument",
                                "lockSelectedInCurrentDocument",
                                "unlockSelectedInCurrentDocument"}
          /\ document.id = 0

\* C31: groupSelected with an empty selection, deleteSelected with no
\* document, an unsupported or empty document or a selection that may not be
\* deleted, and the group, lock and unlock commands on the current document
\* when there is none, resolve with no host request and no dispatch.
C31_SkipsResolveWithNoEffect ==
    [][ RunsWithNothingToDo => ResolvesAsNoOp ]_vars

\* without a document deleteSelected and lockSelectedInCurrentDocument have
\* resolved and nothing was dispatched or requested
C31_Witness ==
    /\ document.id = 0
    /\ Len(results) = 2
    /\ results[1].command.kind = "deleteSelected"
    /\ results[2].command.kind = "lockSelectedInCurrentDocument"
    /\ \A i \in 1..2 : results[i].outcome = "resolved"
    /\ dispatched = <<>>
    /\ timers = <<>>

(* ------------------------------------------------------------------ *)
(* Properties of reorder                                               *)
(* ------------------------------------------------------------------ *)

\* the reorder command that is running
ReorderRunning == queue # <<>> /\ queue[1].kind = "reorderLayers" /\ queue[1].stage = "reordering"

\* C32 as stated: reorder dispatches REORDER_LAYERS optimistically, while the
\* host's reorder request is still unanswered.
C32_ReorderDispatchesOptimistically ==
    (ReorderRunning /\ queue[1].hostStep = "reorder") =>
        \/ EventsOf(queue[1].id) # {}
        \/ \E k \in 1..Len(timers) : timers[k].command = queue[1].id

\* C32, amended: reorder dispatches nothing while its host requests are
\* pending; REORDER_LAYERS is dispatched once, after the host has confirmed
\* the reorder and returned the layer IDs in their new order, and carries
\* these IDs; a rejected reorder dispatches nothing.
C32_ReorderDispatchesAfterHost ==
    /\ ReorderRunning => EventsOf(queue[1].id) = {}
    /\ \A i \in 1..Len(results) :
           results[i].command.kind = "reorderLayers" =>
               IF results[i].outcome = "rejected"
               THEN EventsOf(results[i].command.id) = {}
               ELSE /\ Cardinality(EventsOf(results[i].command.id)) = 1
                    /\ \A j \in EventsOf(results[i].command.id) :
                           /\ dispatched[j].type = "REORDER_LAYERS"
                           /\ dispatched[j].layerIDs = results[i].command.refs

\* a reorder resolved that moved the bottom layer to the top
C32_Witness ==
    \E i \in 1..Len(results) :
        /\ results[i].command.kind = "reorderLayers"
        /\ results[i].outcome = "resolved"
        /\ results[i].command.layerSpec = <<1>>
        /\ \E j \in EventsOf(results[i].command.id) : dispatched[j].layerIDs = <<1, 3, 2>>
        /\ document.layers[1].id = 1

(* ------------------------------------------------------------------ *)
(* Properties of the path listener                                     *)
(* ------------------------------------------------------------------ *)

\* the commands called by the pathOperation listener: waiting, running or settled
PathOperationCommands ==
    {queue[k] : k \in 1..Len(queue)} \cup {results[i].command : i \in 1..Len(results)}

\* what the pathOperation listener has caused so far is resetBounds for the
\* layers of its event, and RESET_BOUNDS events for these layers
PathOperationResetsBoundsOnly ==
    /\ \A cmd \in PathOperationCommands :
           cmd.origin = "pathOperation" =>
               cmd.kind = "resetBounds" /\ cmd.layerSpec \in PathLayerIDs
    /\ \A j \in 1..Len(dispatched) :
           dispatched[j].command.origin = "pathOperation" =>
               /\ dispatched[j].type = "RESET_BOUNDS"
               /\ dispatched[j].layerIDs = dispatched[j].command.layerSpec
               /\ dispatched[j].command.kind = "resetBounds"

\* C33: a pathOperation event calls resetBounds only when its command is
\* pathChange, for exactly the layers the event refers to, and never a full
\* resync; any other pathOperation command causes no host request and no
\* dispatch.
C33_PathChangeResetsBoundsOnly ==
    [][ /\ PathOperationResetsBoundsOnly'
        /\ \A command \in {"pathChange", "newPath"}, layerIDs \in PathLayerIDs :
             PathOperationEvent(command, layerIDs) =>
                 /\ dispatched' = dispatched
                 /\ IF command = "pathChange" /\ document.id # 0
                    THEN /\ Len(queue') = Len(queue) + 1
                         /\ queue'[Len(queue')].kind = "resetBounds"
                         /\ queue'[Len(queue')].layerSpec = layerIDs
                    ELSE queue' = queue ]_vars

\* a pathChange for layers 2 and 1 has reset the bounds of exactly these
\* layers, and no other event of the run has dispatched anything
C33_Witness ==
    /\ events >= 2
    /\ Len(results) = 1
    /\ results[1].command.origin = "pathOperation"
    /\ results[1].outcome = "resolved"
    /\ Len(dispatched) = 1
    /\ dispatched[1].type = "RESET_BOUNDS"
    /\ dispatched[1].layerIDs = <<2, 1>>

(* ------------------------------------------------------------------ *)
(* Properties of addLayers called with an explicit replace flag        *)
(* ------------------------------------------------------------------ *)

\* C34: addLayers called with replace false dispatches ADD_LAYERS with a
\* replace flag that is not set, whatever the document holds; the replacement
\* heuristic is applied only when no replace argument was given.
C34_ExplicitFalseIsKept ==
    \A j \in 1..Len(dispatched) :
        (dispatched[j].type = "ADD_LAYERS" /\ dispatched[j].command.replaceArg = "false") =>
            ~Truthy(dispatched[j].replace)

(* ------------------------------------------------------------------ *)
(* Properties of a text layer deleted while it is being added          *)
(* ------------------------------------------------------------------ *)

\* the command called for the deleteTextLayer event of layerID has settled
DeletedTextLayer(layerID) ==
    {i \in 1..Len(results) : /\ results[i].command.origin = "deleteTextLayer"
                             /\ results[i].command.layerSpec = <<layerID>>}

\* the add flow of the createTextLayer event for layerID dispatched its
\* ADD_LAYERS after the deleteTextLayer event of result i had arrived
AddedAfterDelete(layerID, i) ==
    \E j \in 1..Len(dispatched) :
        /\ j > results[i].command.dispatchedBefore
        /\ dispatched[j].type = "ADD_LAYERS"
        /\ dispatched[j].command.origin = "createTextLayer"
        /\ dispatched[j].layerIDs = <<layerID>>

\* C35: when the deleteTextLayer event for a layer arrives while the add flow
\* of its createTextLayer event is pending (or after it), the local document
\* does not hold the layer once every pending command has settled, as long
\* as the host has not created the layer again.
C35_DeletedTextLayerIsGone ==
    \A layerID \in EventLayerIDs :
        (/\ queue = <<>>
         /\ layerID \notin hostLayerIDs
         /\ DeletedTextLayer(layerID) # {}) =>
            layerID \notin LayerIDsOf(document)

\* the add flow of layer 6 was pending when its deleteTextLayer event arrived;
\* it has dispatched ADD_LAYERS since, the delete has been handled and the
\* layer is gone
C35_Witness ==
    /\ queue = <<>>
    /\ 6 \notin hostLayerIDs
    /\ \E i \in DeletedTextLayer(6) : AddedAfterDelete(6, i) /\ results[i].outcome = "resolved"
    /\ 6 \notin LayerIDsOf(document)

(* ------------------------------------------------------------------ *)
(* Properties of the confirmation of groupSelected                     *)
(* ------------------------------------------------------------------ *)

\* a groupSelected command that waits for the host, or that was rejected,
\* has dispatched nothing; one that has resolved after a host request has
\* dispatched one GROUP_SELECTED event
GroupSelectedDispatchedOnSuccess ==
    /\ (queue # <<>> /\ queue[1].kind = "groupSelected") => EventsOf(queue[1].id) = {}
    /\ \A i \in 1..Len(results) :
           results[i].command.kind = "groupSelected" =>
               IF results[i].outcome = "rejected" \/ results[i].command.stage = "queued"
               THEN EventsOf(results[i].command.id) = {}
               ELSE /\ Cardinality(EventsOf(results[i].command.id)) = 1
                    /\ \A j \in EventsOf(results[i].command.id) :
                           dispatched[j].type = "GROUP_SELECTED"

\* C36: groupSelected dispatches GROUP_SELECTED only in the step in which the
\* host confirms the group request, with the start ID, end ID and name of the
\* host's answer; a rejected request rejects the command and dispatches
\* nothing.
C36_GroupSelectedAfterHost ==
    [][ /\ GroupSelectedDispatchedOnSuccess'
        /\ (Len(dispatched') > Len(dispatched)
              /\ dispatched'[Len(dispatched')].type = "GROUP_SELECTED") =>
               /\ queue # <<>>
               /\ queue[1].kind = "groupSelected"
               /\ queue[1].stage = "playing"
               /\ dispatched'[Len(dispatched')].groupID = hostGroupResult.layerSectionStart
               /\ dispatched'[Len(dispatched')].groupEndID = hostGroupResult.layerSectionEnd
               /\ dispatched'[Len(dispatched')].groupname = hostGroupResult.name
               /\ dispatched'[Len(dispatched')].documentID = queue[1].document.id
               /\ results' = Append(results, Result(queue[1], "resolved", "undefined"))
        /\ (HostRejectPlay /\ queue[1].kind = "groupSelected") =>
               /\ dispatched' = dispatched
               /\ results'[Len(results')].outcome = "rejected" ]_vars

\* one groupSelected was rejected by the host and dispatched nothing, another
\* was confirmed and dispatched the host's IDs
C36_Witness ==
    /\ Len(results) = 2
    /\ \A i \in 1..2 : results[i].command.kind = "groupSelected"
    /\ results[1].outcome = "rejected"
    /\ results[2].outcome = "resolved"
    /\ Len(dispatched) = 1
    /\ dispatched[1].type = "GROUP_SELECTED"
    /\ dispatched[1].groupEndID = dispatched[1].groupID + 1
    /\ dispatched[1].groupID \in LayerIDsOf(document)

(* ------------------------------------------------------------------ *)
(* Properties of setLocking on a background layer                      *)
(* ------------------------------------------------------------------ *)

\* the setLocking commands that were started for a background layer, running or settled
BackgroundLockings ==
    { cmd \in {queue[k] : k \in 1..Len(queue)} \cup {results[i].command : i \in 1..Len(results)} :
        /\ cmd.kind = "setLocking"
        /\ cmd.stage # "queued"
        /\ byID(cmd.document, cmd.layerSpec[1]) # 0
        /\ cmd.document.layers[byID(cmd.document, cmd.layerSpec[1])].isBackground }

\* C37: setLocking on a background layer sends the unlock-background request,
\* whatever value of locked was asked for, and never the set-locking request;
\* once the host has answered it transfers to addLayers for the layer ID of
\* the answer, and the ADD_LAYERS event of that transfer has selected true and
\* replace true.
C37_BackgroundIsUnlockedAndAdded ==
    \A cmd \in BackgroundLockings :
        /\ cmd.hostStep \in {"unlockBackground", "addLayers"}
        /\ cmd.hostStep = "addLayers" =>
               /\ Len(cmd.refs) = 1
               /\ cmd.refs[1] \in hostLayerIDs
               /\ \E t \in 1..Len(transfers) :
                      transfers[t] = Transfer("setLocking", "addLayers", cmd.refs[1])
        /\ \A j \in EventsOf(cmd.id) :
               dispatched[j].type = "ADD_LAYERS" =>
                   /\ cmd.hostStep = "addLayers"
                   /\ dispatched[j].layerIDs = cmd.refs
                   /\ dispatched[j].selected = "true"
                   /\ dispatched[j].replace = "true"
        /\ cmd.host = "resolved" =>
               \E j \in EventsOf(cmd.id) : dispatched[j].type = "ADD_LAYERS"

\* a request to lock the background layer has resolved: the layer was unlocked
\* and the layer the host returned was added in its place
C37_Witness ==
    \E i \in 1..Len(results) :
        /\ results[i].command \in BackgroundLockings
        /\ results[i].command.value
        /\ results[i].outcome = "resolved"
        /\ \E j \in EventsOf(results[i].command.id) :
               /\ dispatched[j].type = "ADD_LAYERS"
               /\ dispatched[j].replace = "true"
               /\ dispatched[j].layerIDs[1] \in LayerIDsOf(document)

(* ------------------------------------------------------------------ *)
(* Termination of the commands                                         *)
(* ------------------------------------------------------------------ *)

\* a layer command or a command of the text tool has been invoked and has
\* neither resolved nor rejected
CommandPending == queue # <<>> \/ toolOp # "idle"

\* C38: when every host call is answered, every invoked layer command and
\* text-tool command resolves or rejects: no command stays pending for ever.
C38_CommandsSettle == CommandPending ~> ~CommandPending

\* a duplicate has resolved through its transfer to addLayers while the text
\* tool was selected, and nothing is pending
C38_Witness ==
    /\ ~CommandPending
    /\ Len(results) = 1
    /\ results[1].command.origin = "duplicate"
    /\ results[1].outcome = "resolved"
    /\ _layerCreatedHandler
    /\ firstLaunch = FALSE


(* ------------------------------------------------------------------ *)
(* Properties of MenuItem.fromDescriptor                               *)
(* ------------------------------------------------------------------ *)

\* the entries of a description's submenu that are processed: all of them in a
\* debug build, those not marked debug otherwise; none below a separator
KeptEntries(raw) ==
    IF raw.separator \/ ~raw.hasSubmenu THEN <<>>
    ELSE IF __PG_DEBUG__ THEN raw.submenu
    ELSE SelectSeq(raw.submenu, LAMBDA entry : ~entry.debug)

\* the processed entries of the description by position: the description
\* itself, the kept entries of its submenu and the kept entries of theirs
ProcessedPaths ==
    {<<>>}
    \cup {<<i>> : i \in 1..Len(KeptEntries(rawMenu))}
    \cup UNION {{<<i, j>> : j \in 1..Len(KeptEntries(KeptEntries(rawMenu)[i]))} :
                    i \in 1..Len(KeptEntries(rawMenu))}

EntryAt(path) ==
    IF path = <<>> THEN rawMenu
    ELSE IF Len(path) = 1 THEN KeptEntries(rawMenu)[path[1]]
    ELSE KeptEntries(KeptEntries(rawMenu)[path[1]])[path[2]]

\* the processed entries that declare a shortcut
ShortcutPaths ==
    {path \in ProcessedPaths : ~EntryAt(path).separator /\ EntryAt(path).hasShortcut}

ShortcutAt(path) == EntryAt(path).shortcut

\* two shortcuts name the same key: the same key char or the same key code
SameKey(s, t) ==
    \/ s.keyChar # "" /\ s.keyChar = t.keyChar
    \/ s.keyCode # "" /\ s.keyCode = t.keyCode

SameModifierBits(s, t) == modifiersToBits(s.modifiers) = modifiersToBits(t.modifiers)

DuplicateShortcut ==
    \E p \in ShortcutPaths, q \in ShortcutPaths :
        p # q /\ SameKey(ShortcutAt(p), ShortcutAt(q))
              /\ SameModifierBits(ShortcutAt(p), ShortcutAt(q))

BothCharAndCode ==
    \E p \in ShortcutPaths : ShortcutAt(p).keyChar # "" /\ ShortcutAt(p).keyCode # ""

UnknownKeyCode ==
    \E p \in ShortcutPaths :
        ShortcutAt(p).keyCode # "" /\ ShortcutAt(p).keyCode \notin DOMAIN eventKeyCode

\* two processed entries declare the same key with different modifier bits
SharedKeyOtherModifiers ==
    \E p \in ShortcutPaths, q \in ShortcutPaths :
        SameKey(ShortcutAt(p), ShortcutAt(q))
        /\ ~SameModifierBits(ShortcutAt(p), ShortcutAt(q))

\* the faults the claim does not name: an entry without id, a submenu without
\* label, a shortcut without key
OtherFault ==
    \/ \E p \in ProcessedPaths : ~EntryAt(p).separator /\ ~EntryAt(p).hasId
    \/ \E p \in ShortcutPaths : ShortcutAt(p).keyChar = "" /\ ShortcutAt(p).keyCode = ""
    \/ \E p \in ProcessedPaths :
           /\ ~EntryAt(p).separator
           /\ EntryAt(p).hasSubmenu
           /\ [k \in 1..(Len(p) + 1) |->
                  IF k = 1 THEN rawMenu.id
                  ELSE IF k = 2 THEN EntryAt(<<p[1]>>).id
                  ELSE EntryAt(p).id] \notin MenuLabels

\* C39: fromDescriptor throws when two processed entries of the menu tree
\* declare the same key (char or code) with the same modifier bits, when an
\* entry gives both a key char and a key code, and when it gives an unknown key
\* code; a description whose only peculiarity is one key declared with
\* different modifier bits is accepted.
C39_ShortcutValidation ==
    processed.outcome # "none" =>
        /\ (DuplicateShortcut \/ BothCharAndCode \/ UnknownKeyCode)
               => processed.outcome = "thrown"
        /\ (SharedKeyOtherModifiers /\ ~DuplicateShortcut /\ ~BothCharAndCode
                /\ ~UnknownKeyCode /\ ~OtherFault)
               => processed.outcome = "returned"

\* a description is rejected for two entries of different submenus that
\* declare one key with the same modifier bits and are otherwise well formed
C39_Witness ==
    /\ processed.outcome = "thrown"
    /\ processed.error = "Menu entry shortcut duplicate"
    /\ ~BothCharAndCode
    /\ ~UnknownKeyCode
    /\ \E p \in ShortcutPaths, q \in ShortcutPaths :
           /\ Len(p) = 1
           /\ Len(q) = 2
           /\ p[1] # q[1]
           /\ SameKey(ShortcutAt(p), ShortcutAt(q))
           /\ SameModifierBits(ShortcutAt(p), ShortcutAt(q))

\* a description with one key declared under different modifier bits is accepted
C39_AcceptedWitness ==
    /\ processed.outcome = "returned"
    /\ SharedKeyOtherModifiers


(* ------------------------------------------------------------------ *)
(* Properties of MenuItem.updateSubmenuProps                           *)
(* ------------------------------------------------------------------ *)

\* the positions of the receiver's submenu entries that carry the given ID
NamedEntries(receiver, submenuID) ==
    IF ~receiver.hasSubmenu THEN {}
    ELSE {i \in 1..Len(receiver.submenu) :
              /\ receiver.submenu[i].type # "separator"
              /\ receiver.submenu[i].itemID = submenuID}

\* the entry has the given properties and is the old entry in every other field
MergedInto(entry, old, props) ==
    /\ DOMAIN entry = DOMAIN old
    /\ \A field \in DOMAIN old :
           entry[field] = IF field \in DOMAIN props THEN props[field] ELSE old[field]

\* what a finished updateSubmenuProps call has given
UpdateSubmenuPropsResult ==
    updated.outcome # "none" =>
        LET receiver == updated.receiver
            named == NamedEntries(receiver, updated.submenuID)
        IN  IF named = {}
            THEN updated.outcome = "thrown"
            ELSE /\ updated.outcome = "returned"
                 /\ Len(updated.menu.submenu) = Len(receiver.submenu)
                 /\ \A field \in DOMAIN receiver \ {"submenu"} :
                        updated.menu[field] = receiver[field]
                 /\ \E i \in named :
                        /\ MergedInto(updated.menu.submenu[i], receiver.submenu[i],
                                      updated.props)
                        /\ \A j \in 1..Len(receiver.submenu) \ {i} :
                               updated.menu.submenu[j] = receiver.submenu[j]

\* C40: updateSubmenuProps throws for a submenu ID the receiver does not have;
\* otherwise it returns a menu in which the named entry has the properties
\* merged in and every other entry, the order of the entries and the other
\* fields are those of the receiver, and the call leaves the receiver as it was.
C40_UpdateSubmenuPropsFrame ==
    [][updated' # updated =>
          /\ UpdateSubmenuPropsResult'
          /\ processed' = processed
          /\ updated'.receiver \in {processed'.menu} \cup Range(processed'.menu.submenu)]_vars

\* a call on a menu of two or more entries has changed the named entry, which
\* is not the first one
C40_Witness ==
    /\ updated.outcome = "returned"
    /\ Len(updated.receiver.submenu) >= 2
    /\ updated.menu # updated.receiver
    /\ updated.menu.submenu[1] = updated.receiver.submenu[1]

\* a call with an ID the receiver does not have has thrown
C40_UnknownWitness ==
    /\ updated.outcome = "thrown"
    /\ updated.receiver.hasSubmenu
    /\ updated.submenuID = "NONE"

====
